---- MODULE Spec2Model ----
(***************************************************************************)
(* Model of the macropad firmware's runtime loop (rust/src/main.rs): the   *)
(* layer state machine, the serial command parser and the per-tick input   *)
(* handling.  Bytes are integers 0..255; an Option is a tuple of length 0  *)
(* (None) or 1 (Some); arrays keep the source's 0-based indices.           *)
(***************************************************************************)
EXTENDS Integers, Sequences, FiniteSets, TLC

VARIABLES
    state,          \* the State struct owned by main
    prev_keys,      \* [bool; 12], the previous tick's key snapshot
    last_a,         \* encoder channel A (is_low) at the previous sample
    tick_counter,   \* u32, wrapping, as <<high half, low half>>
    serial_buf,     \* the live prefix serial_buf[..serial_pos] of the line buffer
    serial_pos,     \* write position in serial_buf
    pc,             \* main's position: the startup beep, then the parts of a tick; "halted" after a panic
    handed,         \* the command lines handed to process_command in this tick
    reports,        \* the HID reports sent by this tick's key scan, in order
    dispatched,     \* the layer handlers this tick's key scan invoked, as <<handler, key>>
    typed,          \* the string handed to send_string when it is exercised on its own
    leds,           \* the frame last written to the LED strip
    pwm,            \* the speaker's PWM slice: divider, top and channel A duty
    usb,            \* the USB globals, the critical section and the two contexts using them
    display,        \* the frame last composed for the OLED
    host,           \* the host's byte stream when its split into reads is under study
    demo            \* the rainbow demo (bin/rainbow-neopixels-keypress), a program of its own

vars == <<state, prev_keys, last_a, tick_counter, serial_buf, serial_pos, pc, handed,
          reports, dispatched, typed, leds, pwm, usb, display, host, demo>>

(***************************************************************************)
(* Bounds of the model                                                     *)
(***************************************************************************)
MaxTicks == 3
\* Ticks the loop runs while its use of the USB globals is followed: tick_usb is
\* called in the tenth.
MaxUsbTicks == 10
\* HID reports one key scan sends while the USB globals are followed.
MaxUsbReports == 2

(***************************************************************************)
(* Program constants                                                       *)
(***************************************************************************)
NUM_KEYS == 12
MsgCap == 20
MsgTake == 20
SerialBufLen == 64
TempBufLen == 32
SnippetKey == 11
\* A u32 is kept as its two 16-bit halves <<high, low>>.
U16 == 65536
U32_zero == <<0, 0>>
\* tick_counter % 10 (65536 % 10 = 6).
u32_mod10(t) == (((t[1] % 10) * 6) + t[2]) % 10
u32_wrapping_add1(t) ==
    IF t[2] + 1 < U16 THEN <<t[1], t[2] + 1>>
    ELSE <<(t[1] + 1) % U16, 0>>

None == <<>>
Some(v) == <<v>>
IsSome(o) == Len(o) = 1
Unwrap(o) == o[1]

(***************************************************************************)
(* Startup beep                                                            *)
(***************************************************************************)
\* clocks.system_clock.freq().to_Hz() with the 12 MHz crystal.
sys_freq == 125000000
BeepDiv == 64
BeepHz == 440
effective_freq == sys_freq \div BeepDiv

\* A faulty top: the counter period minus one.
top_minus_one == (((effective_freq \div BeepHz) - 1) % U16)

\* (effective_freq / 440) as u16
top == (effective_freq \div BeepHz) % U16

\* A PWM slice out of reset, and the slice once the beep is over.
PwmReset == [ div |-> 1, top |-> 65535, duty |-> 0 ]
PwmSilent == [ div |-> BeepDiv, top |-> top, duty |-> 0 ]

(***************************************************************************)
(* Layers and status                                                       *)
(***************************************************************************)
Layer == {"Vibe", "Media", "Snippet"}
Status == {"Idle", "Run", "Wait", "Err"}

\* A faulty Layer_next: the cycle stops at Media.
Layer_next_stuck(l) ==
    CASE l = "Vibe" -> "Media"
      [] l = "Media" -> "Media"
      [] l = "Snippet" -> "Snippet"

Layer_next(l) ==
    CASE l = "Vibe" -> "Media"
      [] l = "Media" -> "Vibe"
      [] l = "Snippet" -> "Snippet"

RGB8(r, g, b) == <<r, g, b>>
RGB8_default == RGB8(0, 0, 0)

State_new ==
    [ layer |-> "Vibe",
      prev_layer |-> "Vibe",
      message |-> <<>>,
      status |-> "Idle",
      custom_colors |-> None,
      display_dirty |-> TRUE ]

\* A faulty toggle_snippet: leaving the overlay goes to the default layer.
toggle_snippet_to_default(s) ==
    LET t == IF s.layer = "Snippet"
             THEN [s EXCEPT !.layer = "Vibe"]
             ELSE [s EXCEPT !.prev_layer = s.layer, !.layer = "Snippet"]
    IN  [t EXCEPT !.display_dirty = TRUE]

\* A faulty toggle_snippet: the layer that is left is saved on the way out of the
\* overlay too.
toggle_snippet_saves_always(s) ==
    LET t == IF s.layer = "Snippet"
             THEN [s EXCEPT !.layer = s.prev_layer, !.prev_layer = s.layer]
             ELSE [s EXCEPT !.prev_layer = s.layer, !.layer = "Snippet"]
    IN  [t EXCEPT !.display_dirty = TRUE]

\* A faulty toggle_snippet: the display-dirty flag is not set.
toggle_snippet_not_dirty(s) ==
    IF s.layer = "Snippet"
    THEN [s EXCEPT !.layer = s.prev_layer]
    ELSE [s EXCEPT !.prev_layer = s.layer, !.layer = "Snippet"]

toggle_snippet(s) ==
    LET t == IF s.layer = "Snippet"
             THEN [s EXCEPT !.layer = s.prev_layer]
             ELSE [s EXCEPT !.prev_layer = s.layer, !.layer = "Snippet"]
    IN  [t EXCEPT !.display_dirty = TRUE]

\* A faulty set_layer: the overlay is accepted as a target.
set_layer_unchecked(s, layer) ==
    [s EXCEPT !.layer = layer, !.prev_layer = layer, !.display_dirty = TRUE]

set_layer(s, layer) ==
    IF layer # "Snippet"
    THEN [s EXCEPT !.layer = layer, !.prev_layer = layer, !.display_dirty = TRUE]
    ELSE s

\* A faulty reset: the whole State goes back to State::new().
reset_to_new(s) == State_new

\* A faulty reset: the override table is kept.
reset_keeps_colors(s) ==
    [s EXCEPT !.message = <<>>, !.status = "Idle", !.display_dirty = TRUE]

reset(s) ==
    [s EXCEPT !.custom_colors = None, !.message = <<>>,
              !.status = "Idle", !.display_dirty = TRUE]

(***************************************************************************)
(* Serial protocol parser                                                  *)
(***************************************************************************)
\* The printable ASCII characters 0x20..0x7E in code order.
PrintableChars ==
    << " ", "!", "DQUOTE", "#", "$", "%", "&", "'", "(", ")", "*", "+", ",", "-", ".", "/",
       "0", "1", "2", "3", "4", "5", "6", "7", "8", "9", ":", ";", "<", "=", ">", "?",
       "@", "A", "B", "C", "D", "E", "F", "G", "H", "I", "J", "K", "L", "M", "N", "O",
       "P", "Q", "R", "S", "T", "U", "V", "W", "X", "Y", "Z", "[", "BACKSLASH", "]", "^", "_",
       "BACKTICK", "a", "b", "c", "d", "e", "f", "g", "h", "i", "j", "k", "l", "m", "n", "o",
       "p", "q", "r", "s", "t", "u", "v", "w", "x", "y", "z", "{", "|", "}", "~" >>

\* The byte of a one-character string (a byte literal).
Ord(ch) == 31 + (CHOOSE i \in 1..Len(PrintableChars) : PrintableChars[i] = ch)

\* The bytes of a tuple of one-character strings (a byte string literal).
Bytes(chs) == [i \in 1..Len(chs) |-> Ord(chs[i])]

LF == 10
CR == 13

Colon == Ord(":")
Digit0 == Ord("0")
Digit9 == Ord("9")
UpperA == Ord("A")
UpperF == Ord("F")
LowerA == Ord("a")
LowerF == Ord("f")

PrefixMSG == Bytes(<<"M", "S", "G", ":">>)
PrefixSTS == Bytes(<<"S", "T", "S", ":">>)
PrefixRGB == Bytes(<<"R", "G", "B", ":">>)
PrefixCLR == Bytes(<<"C", "L", "R", ":">>)
PrefixRST == Bytes(<<"R", "S", "T", ":">>)

NameIDLE == Bytes(<<"I", "D", "L", "E">>)
NameRUN == Bytes(<<"R", "U", "N">>)
NameWAIT == Bytes(<<"W", "A", "I", "T">>)
NameERR == Bytes(<<"E", "R", "R">>)

\* s[from..] of a slice, from 0-based.
SliceFrom(s, from) == SubSeq(s, from + 1, Len(s))
\* s[..to] of a slice, to 0-based and exclusive.
SliceTo(s, to) == SubSeq(s, 1, to)

starts_with(s, p) == Len(s) >= Len(p) /\ SubSeq(s, 1, Len(p)) = p

hex_digit(c) ==
    CASE c >= Digit0 /\ c <= Digit9 -> Some(c - Digit0)
      [] c >= UpperA /\ c <= UpperF -> Some(c - UpperA + 10)
      [] c >= LowerA /\ c <= LowerF -> Some(c - LowerA + 10)
      [] OTHER -> None

\* (high << 4) | low on u8: both digits are below 16, so the bits do not overlap.
hex_byte(s) ==
    IF Len(s) # 2 THEN None
    ELSE LET high == hex_digit(s[1])
             low == hex_digit(s[2])
         IN  IF ~IsSome(high) THEN None
             ELSE IF ~IsSome(low) THEN None
             ELSE Some(((Unwrap(high) * 16) % 256) + Unwrap(low))

parse_hex_color(s) ==
    IF Len(s) # 6 THEN None
    ELSE LET r == hex_byte(SubSeq(s, 1, 2))
             g == hex_byte(SubSeq(s, 3, 4))
             b == hex_byte(SubSeq(s, 5, 6))
         IN  IF ~IsSome(r) THEN None
             ELSE IF ~IsSome(g) THEN None
             ELSE IF ~IsSome(b) THEN None
             ELSE Some(RGB8(Unwrap(r), Unwrap(g), Unwrap(b)))

\* The digit loop of parse_key_num from position i (1-based) with accumulator n:
\* None as soon as a byte is no decimal digit.
RECURSIVE key_num_loop(_, _, _)
key_num_loop(s, i, n) ==
    IF i > Len(s) THEN Some(n)
    ELSE IF s[i] < Digit0 \/ s[i] > Digit9 THEN None
    ELSE key_num_loop(s, i + 1, n * 10 + (s[i] - Digit0))

\* A faulty parse_key_num: the 1-based key number is returned as the index.
parse_key_num_one_based(s) ==
    IF Len(s) = 0 \/ Len(s) > 2 THEN None
    ELSE LET n == key_num_loop(s, 1, 0)
         IN  IF ~IsSome(n) THEN None
             ELSE IF Unwrap(n) >= 1 /\ Unwrap(n) <= 12 THEN Some(Unwrap(n))
             ELSE None

parse_key_num(s) ==
    IF Len(s) = 0 \/ Len(s) > 2 THEN None
    ELSE LET n == key_num_loop(s, 1, 0)
         IN  IF ~IsSome(n) THEN None
             ELSE IF Unwrap(n) >= 1 /\ Unwrap(n) <= 12 THEN Some(Unwrap(n) - 1)
             ELSE None

\* rest.iter().position(|&c| c == b':'), 0-based.
colon_position(rest) ==
    LET hits == {i \in 1..Len(rest) : rest[i] = Colon}
    IN  IF hits = {} THEN None
        ELSE Some((CHOOSE i \in hits : \A j \in hits : i <= j) - 1)

\* heapless String<20>::push: refused when the string is full.
message_push(m, c) == IF Len(m) < MsgCap THEN Append(m, c) ELSE m

\* for &c in text.iter().take(20) { if printable { push } } from position i.
RECURSIVE msg_copy_loop(_, _, _)
msg_copy_loop(text, i, m) ==
    IF i > Len(text) \/ i > MsgTake THEN m
    ELSE IF text[i] >= 32 /\ text[i] < 127
         THEN msg_copy_loop(text, i + 1, message_push(m, text[i]))
         ELSE msg_copy_loop(text, i + 1, m)

cmd_msg(cmd, s) ==
    [s EXCEPT !.message = msg_copy_loop(SliceFrom(cmd, 4), 1, <<>>),
              !.display_dirty = TRUE]

\* A faulty cmd_sts: the name is matched as a prefix of the rest of the line.
cmd_sts_by_prefix(cmd, s) ==
    LET status_str == SliceFrom(cmd, 4)
        st == CASE starts_with(status_str, NameIDLE) -> "Idle"
                [] starts_with(status_str, NameRUN) -> "Run"
                [] starts_with(status_str, NameWAIT) -> "Wait"
                [] starts_with(status_str, NameERR) -> "Err"
                [] OTHER -> s.status
    IN  [s EXCEPT !.status = st, !.display_dirty = TRUE]

cmd_sts(cmd, s) ==
    LET status_str == SliceFrom(cmd, 4)
        st == CASE status_str = NameIDLE -> "Idle"
                [] status_str = NameRUN -> "Run"
                [] status_str = NameWAIT -> "Wait"
                [] status_str = NameERR -> "Err"
                [] OTHER -> s.status
    IN  [s EXCEPT !.status = st, !.display_dirty = TRUE]

\* colors[key_idx] = color, the table created all-default when absent.
set_custom_color(s, key_idx, color) ==
    LET colors == IF ~IsSome(s.custom_colors)
                  THEN [i \in 0..(NUM_KEYS - 1) |-> RGB8_default]
                  ELSE Unwrap(s.custom_colors)
    IN  [s EXCEPT !.custom_colors = Some([colors EXCEPT ![key_idx] = color])]

\* A faulty cmd_rgb: the table is created before the colour is parsed.
cmd_rgb_eager_table(cmd, s) ==
    LET rest == SliceFrom(cmd, 4)
        colon_pos == colon_position(rest)
    IN  IF ~IsSome(colon_pos) THEN s
        ELSE LET key_idx == parse_key_num(SliceTo(rest, Unwrap(colon_pos)))
             IN  IF ~IsSome(key_idx) THEN s
                 ELSE LET color == parse_hex_color(SliceFrom(rest, Unwrap(colon_pos) + 1))
                          made == IF ~IsSome(s.custom_colors)
                                  THEN [s EXCEPT !.custom_colors =
                                            Some([i \in 0..(NUM_KEYS - 1) |-> RGB8_default])]
                                  ELSE s
                      IN  IF ~IsSome(color) THEN made
                          ELSE set_custom_color(made, Unwrap(key_idx), Unwrap(color))

cmd_rgb(cmd, s) ==
    LET rest == SliceFrom(cmd, 4)
        colon_pos == colon_position(rest)
    IN  IF ~IsSome(colon_pos) THEN s
        ELSE LET key_idx == parse_key_num(SliceTo(rest, Unwrap(colon_pos)))
             IN  IF ~IsSome(key_idx) THEN s
                 ELSE LET color == parse_hex_color(SliceFrom(rest, Unwrap(colon_pos) + 1))
                      IN  IF ~IsSome(color) THEN s
                          ELSE set_custom_color(s, Unwrap(key_idx), Unwrap(color))

\* A faulty cmd_clr: the overrides and the status are cleared with the message.
cmd_clr_resets(cmd, s) == reset(s)

cmd_clr(cmd, s) == [s EXCEPT !.message = <<>>, !.display_dirty = TRUE]

process_command(cmd, s) ==
    IF Len(cmd) < 4 THEN s
    ELSE IF starts_with(cmd, PrefixMSG) THEN cmd_msg(cmd, s)
    ELSE IF starts_with(cmd, PrefixSTS) THEN cmd_sts(cmd, s)
    ELSE IF starts_with(cmd, PrefixRGB) THEN cmd_rgb(cmd, s)
    ELSE IF starts_with(cmd, PrefixCLR) THEN cmd_clr(cmd, s)
    ELSE IF starts_with(cmd, PrefixRST) THEN reset(s)
    ELSE s

(***************************************************************************)
(* LED effects.  u8 and u16 arithmetic wraps at its width.                 *)
(***************************************************************************)
NUM_LEDS == 12
U8 == 256

\* tick / 2 of a u32 tick kept as <<high, low>>: at most 2^31 - 1.
u32_div2(t) == (t[1] * 32768) + (t[2] \div 2)

lerp_channel(a, b, t16, inv_t) == ((((a * inv_t) + (b * t16)) % U16) \div 255) % U8

lerp_color(a, b, t) ==
    LET t16 == t
        inv_t == 255 - t16
    IN  RGB8(lerp_channel(a[1], b[1], t16, inv_t),
             lerp_channel(a[2], b[2], t16, inv_t),
             lerp_channel(a[3], b[3], t16, inv_t))

vibe_gradient(pos) ==
    LET purple == RGB8(128, 0, 255)
        cyan == RGB8(0, 255, 255)
        blue == RGB8(0, 0, 255)
    IN  IF pos < 128
        THEN lerp_color(purple, cyan, (pos * 2) % U8)
        ELSE lerp_color(cyan, blue, ((pos - 128) * 2) % U8)

media_gradient(pos) ==
    LET orange == RGB8(255, 128, 0)
        pink == RGB8(255, 0, 128)
        red == RGB8(255, 0, 0)
    IN  IF pos < 128
        THEN lerp_color(orange, pink, (pos * 2) % U8)
        ELSE lerp_color(pink, red, ((pos - 128) * 2) % U8)

pulse_green(tick) ==
    LET phase == u32_div2(tick) % U8
        intensity == IF phase < 128
                     THEN (phase * 2) % U8
                     ELSE ((255 - phase) * 2) % U8
    IN  RGB8(0, intensity, 0)

\* offset.wrapping_add((i as u8) * 23)
gradient_pos(offset, i) == (offset + ((i * 23) % U8)) % U8

(***************************************************************************)
(* The same arithmetic before any wrapping: the value each u8 and u16      *)
(* operation has as an integer, in the order the code computes them.       *)
(***************************************************************************)
\* A faulty gradient: the second half is not rebased to 0 before it is doubled.
gradient_u8_not_rebased(pos) ==
    IF pos < 128 THEN << pos * 2 >> ELSE << pos, pos * 2 >>

\* vibe_gradient and media_gradient: pos * 2, or pos - 128 and (pos - 128) * 2.
gradient_u8(pos) ==
    IF pos < 128 THEN << pos * 2 >> ELSE << pos - 128, (pos - 128) * 2 >>

\* pulse_green: phase * 2, or 255 - phase and (255 - phase) * 2.
pulse_u8(tick) ==
    LET phase == u32_div2(tick) % U8
    IN  IF phase < 128 THEN << phase * 2 >> ELSE << 255 - phase, (255 - phase) * 2 >>

\* compute_leds: (i as u8) * 23.
pos_u8(i) == << i * 23 >>

\* lerp_color, one channel: 255 - t16, the two products and their sum, as u16.
lerp_u16(a, b, t) ==
    << 255 - t, a * (255 - t), b * t, (a * (255 - t)) + (b * t) >>

\* The channel values of the gradients' colours.
GradientChannels == { 0, 128, 255 }

\* A faulty layer_leds: the Media gradient runs over all twelve LEDs.
layer_leds_no_indicator(layer, tick) ==
    LET offset == u32_div2(tick) % U8
    IN  [ i \in 0..(NUM_LEDS - 1) |->
            CASE layer = "Vibe" ->
                   IF i < 11 THEN vibe_gradient(gradient_pos(offset, i)) ELSE pulse_green(tick)
              [] layer = "Media" -> media_gradient(gradient_pos(offset, i))
              [] layer = "Snippet" ->
                   IF i < 11 THEN RGB8(255, 255, 255) ELSE RGB8(0, 255, 0) ]

\* The match on state.layer: the frame of the layer before the overrides.
layer_leds(layer, tick) ==
    LET offset == u32_div2(tick) % U8
    IN  [ i \in 0..(NUM_LEDS - 1) |->
            CASE layer = "Vibe" ->
                   IF i < 11 THEN vibe_gradient(gradient_pos(offset, i)) ELSE pulse_green(tick)
              [] layer = "Media" ->
                   IF i < 11 THEN media_gradient(gradient_pos(offset, i)) ELSE pulse_green(tick)
              [] layer = "Snippet" ->
                   IF i < 11 THEN RGB8(255, 255, 255) ELSE RGB8(0, 255, 0) ]

\* A faulty apply_custom_colors: a present table replaces every LED, unset entries
\* included.
apply_custom_colors_all(custom_colors, frame) ==
    IF IsSome(custom_colors)
    THEN [ i \in 0..(NUM_LEDS - 1) |-> Unwrap(custom_colors)[i] ]
    ELSE frame

\* if let Some(ref custom) = state.custom_colors { ... }
apply_custom_colors(custom_colors, frame) ==
    IF IsSome(custom_colors)
    THEN LET custom == Unwrap(custom_colors)
         IN  [ i \in 0..(NUM_LEDS - 1) |->
                 IF custom[i][1] # 0 \/ custom[i][2] # 0 \/ custom[i][3] # 0
                 THEN custom[i]
                 ELSE frame[i] ]
    ELSE frame

compute_leds(s, tick) == apply_custom_colors(s.custom_colors, layer_leds(s.layer, tick))

(***************************************************************************)
(* Key actions.  A HID report is the tuple of keys handed to write_report;  *)
(* a handler is the sequence of reports it sends, in order.  The busy-wait  *)
(* delays between the reports take time and send nothing.  write_report's   *)
(* result is discarded by send_keys.                                        *)
(***************************************************************************)
TAB == 9

\* send_keys hands one report to write_report.
send_keys(keys) == << keys >>
release_keys == send_keys(<<>>)
\* send_keys(keys), delay, release_keys().
chord(keys) == send_keys(keys) \o release_keys

\* The arms of char_to_key's match in source order as <<char, key, shift>>, a char
\* being its code point.
char_to_key_arms ==
    << <<Ord("a"), "A", FALSE>>, <<Ord("b"), "B", FALSE>>, <<Ord("c"), "C", FALSE>>,
       <<Ord("d"), "G", FALSE>>, <<Ord("e"), "K", FALSE>>, <<Ord("f"), "E", FALSE>>,
       <<Ord("g"), "T", FALSE>>, <<Ord("h"), "H", FALSE>>, <<Ord("i"), "L", FALSE>>,
       <<Ord("j"), "Y", FALSE>>, <<Ord("k"), "N", FALSE>>, <<Ord("l"), "U", FALSE>>,
       <<Ord("m"), "M", FALSE>>, <<Ord("n"), "J", FALSE>>, <<Ord("o"), "Semicolon", FALSE>>,
       <<Ord("p"), "R", FALSE>>, <<Ord("q"), "Q", FALSE>>, <<Ord("r"), "S", FALSE>>,
       <<Ord("s"), "D", FALSE>>, <<Ord("t"), "F", FALSE>>, <<Ord("u"), "I", FALSE>>,
       <<Ord("v"), "V", FALSE>>, <<Ord("w"), "W", FALSE>>, <<Ord("x"), "X", FALSE>>,
       <<Ord("y"), "O", FALSE>>, <<Ord("z"), "Z", FALSE>>, <<Ord("A"), "A", TRUE>>,
       <<Ord("B"), "B", TRUE>>, <<Ord("C"), "C", TRUE>>, <<Ord("D"), "G", TRUE>>,
       <<Ord("E"), "K", TRUE>>, <<Ord("F"), "E", TRUE>>, <<Ord("G"), "T", TRUE>>,
       <<Ord("H"), "H", TRUE>>, <<Ord("I"), "L", TRUE>>, <<Ord("J"), "Y", TRUE>>,
       <<Ord("K"), "N", TRUE>>, <<Ord("L"), "U", TRUE>>, <<Ord("M"), "M", TRUE>>,
       <<Ord("N"), "J", TRUE>>, <<Ord("O"), "Semicolon", TRUE>>, <<Ord("P"), "R", TRUE>>,
       <<Ord("Q"), "Q", TRUE>>, <<Ord("R"), "S", TRUE>>, <<Ord("S"), "D", TRUE>>,
       <<Ord("T"), "F", TRUE>>, <<Ord("U"), "I", TRUE>>, <<Ord("V"), "V", TRUE>>,
       <<Ord("W"), "W", TRUE>>, <<Ord("X"), "X", TRUE>>, <<Ord("Y"), "O", TRUE>>,
       <<Ord("Z"), "Z", TRUE>>, <<Ord("0"), "Keyboard0", FALSE>>, <<Ord("1"), "Keyboard1", FALSE>>,
       <<Ord("2"), "Keyboard2", FALSE>>, <<Ord("3"), "Keyboard3", FALSE>>, <<Ord("4"), "Keyboard4", FALSE>>,
       <<Ord("5"), "Keyboard5", FALSE>>, <<Ord("6"), "Keyboard6", FALSE>>, <<Ord("7"), "Keyboard7", FALSE>>,
       <<Ord("8"), "Keyboard8", FALSE>>, <<Ord("9"), "Keyboard9", FALSE>>, <<Ord(" "), "Space", FALSE>>,
       <<LF, "ReturnEnter", FALSE>>, <<TAB, "Tab", FALSE>>, <<Ord("!"), "Keyboard1", TRUE>>,
       <<Colon, "P", TRUE>>, <<Ord(";"), "P", FALSE>> >>

\* A faulty char_to_key: an upper-case letter is sent as its own key with shift,
\* the layout not applied.
char_to_key_upper_unmapped(c) ==
    LET hits == { i \in 1..Len(char_to_key_arms) : char_to_key_arms[i][1] = c }
    IN  IF hits = {} THEN None
        ELSE LET arm == char_to_key_arms[CHOOSE i \in hits : \A j \in hits : i <= j]
             IN  IF c >= UpperA /\ c <= Ord("Z")
                 THEN Some(<<PrintableChars[c - 31], TRUE>>)
                 ELSE Some(<<arm[2], arm[3]>>)

char_to_key(c) ==
    LET hits == { i \in 1..Len(char_to_key_arms) : char_to_key_arms[i][1] = c }
    IN  IF hits = {} THEN None
        ELSE LET arm == char_to_key_arms[CHOOSE i \in hits : \A j \in hits : i <= j]
             IN  Some(<<arm[2], arm[3]>>)

\* A faulty send_string: typing stops at the first unsupported character.
RECURSIVE send_string_stops(_, _)
send_string_stops(s, i) ==
    IF i > Len(s) THEN <<>>
    ELSE LET key == char_to_key(s[i])
         IN  IF IsSome(key)
             THEN (IF Unwrap(key)[2]
                   THEN chord(<<"LeftShift", Unwrap(key)[1]>>)
                   ELSE chord(<<Unwrap(key)[1]>>))
                  \o send_string_stops(s, i + 1)
             ELSE <<>>

\* for c in s.chars() from position i (1-based): the reports sent.
RECURSIVE send_string(_, _)
send_string(s, i) ==
    IF i > Len(s) THEN <<>>
    ELSE LET key == char_to_key(s[i])
         IN  IF IsSome(key)
             THEN (IF Unwrap(key)[2]
                   THEN chord(<<"LeftShift", Unwrap(key)[1]>>)
                   ELSE chord(<<Unwrap(key)[1]>>))
                  \o send_string(s, i + 1)
             ELSE send_string(s, i + 1)

\* A faulty handle_vibe_key: the double Escape has no release between its presses.
handle_vibe_key_no_release(key) ==
    CASE key = 0 -> chord(<<"LeftGUI", "LeftShift", "R">>)
          [] key = 1 -> chord(<<"Escape">>)
          [] key = 2 -> chord(<<"LeftShift", "Tab">>)
          [] key = 3 -> << <<"Escape">>, <<"Escape">>, <<>> >>
          [] key = 4 -> chord(<<"ReturnEnter">>)
          [] key = 5 -> chord(<<"Tab">>)
          [] key = 6 -> chord(<<"LeftGUI", "Z">>)
          [] key = 7 -> chord(<<"LeftGUI", "LeftShift", "Z">>)
          [] key = 8 -> chord(<<"LeftGUI", "S">>)
          [] key = 9 -> chord(<<"LeftGUI", "C">>)
          [] key = 10 -> chord(<<"LeftGUI", "V">>)
          [] OTHER -> <<>>

handle_vibe_key(key) ==
    CASE key = 0 -> chord(<<"LeftGUI", "LeftShift", "R">>)
          [] key = 1 -> chord(<<"Escape">>)
          [] key = 2 -> chord(<<"LeftShift", "Tab">>)
          [] key = 3 -> chord(<<"Escape">>) \o chord(<<"Escape">>)
          [] key = 4 -> chord(<<"ReturnEnter">>)
          [] key = 5 -> chord(<<"Tab">>)
          [] key = 6 -> chord(<<"LeftGUI", "Z">>)
          [] key = 7 -> chord(<<"LeftGUI", "LeftShift", "Z">>)
          [] key = 8 -> chord(<<"LeftGUI", "S">>)
          [] key = 9 -> chord(<<"LeftGUI", "C">>)
          [] key = 10 -> chord(<<"LeftGUI", "V">>)
          [] OTHER -> <<>>

handle_media_key(key) ==
    CASE key = 0 -> chord(<<"F7">>)
          [] key = 1 -> chord(<<"F8">>)
          [] key = 2 -> chord(<<"F9">>)
          [] key = 3 -> chord(<<"F10">>)
          [] key = 4 -> chord(<<"F11">>)
          [] key = 5 -> chord(<<"F12">>)
          [] key = 6 -> chord(<<"LeftGUI", "LeftArrow">>)
          [] key = 7 -> chord(<<"Escape">>)
          [] key = 8 -> chord(<<"LeftGUI", "RightArrow">>)
          [] key = 9 -> chord(<<"LeftGUI", "LeftShift", "M">>)
          [] key = 10 -> chord(<<"LeftGUI", "LeftShift", "V">>)
          [] OTHER -> <<>>

snippets ==
    << Bytes(<<"!", "t", "d">>),
       Bytes(<<"!", "s", "h">>),
       Bytes(<<":", "r", "o", "c", "k", "e", "t", ":">>),
       Bytes(<<"s", "n", "i", "p", "0", "4">>),
       Bytes(<<"s", "n", "i", "p", "0", "5">>),
       Bytes(<<"s", "n", "i", "p", "0", "6">>),
       Bytes(<<"s", "n", "i", "p", "0", "7">>),
       Bytes(<<"s", "n", "i", "p", "0", "8">>),
       Bytes(<<"s", "n", "i", "p", "0", "9">>),
       Bytes(<<"s", "n", "i", "p", "1", "0">>),
       Bytes(<<"s", "n", "i", "p", "1", "1">>) >>

\* snippets is indexed from 0.
handle_snippet_key(key) ==
    IF key < 11 THEN send_string(snippets[key + 1], 1) ELSE <<>>

(***************************************************************************)
(* The main loop                                                           *)
(***************************************************************************)
\* A faulty serial_byte: the capacity test admits a write at position 64.
serial_byte_off_by_one(r, c) ==
    IF c = LF \/ c = CR
    THEN IF r.pos > 0
         THEN [ st |-> process_command(SubSeq(r.buf, 1, r.pos), r.st),
                buf |-> <<>>,
                pos |-> 0,
                hd |-> Append(r.hd, SubSeq(r.buf, 1, r.pos)) ]
         ELSE r
    ELSE IF r.pos <= 64
         THEN [r EXCEPT !.buf = SubSeq(r.buf, 1, r.pos) \o <<c>>, !.pos = r.pos + 1]
         ELSE r

\* One byte c of the read loop applied to r = [st, buf, pos, hd]: the state, the
\* line buffer, its write position and the lines handed to process_command.
\* Bytes at and after the write position are never read (the only read is
\* serial_buf[..serial_pos]), so buf keeps the bytes before it.
serial_byte(r, c) ==
    IF c = LF \/ c = CR
    THEN IF r.pos > 0
         THEN [ st |-> process_command(SliceTo(r.buf, r.pos), r.st),
                buf |-> <<>>,
                pos |-> 0,
                hd |-> Append(r.hd, SliceTo(r.buf, r.pos)) ]
         ELSE r
    ELSE IF r.pos < SerialBufLen
         THEN [r EXCEPT !.buf = SliceTo(r.buf, r.pos) \o <<c>>, !.pos = r.pos + 1]
         ELSE r

\* for i in 0..count over temp_buf, from position i (1-based).
RECURSIVE serial_loop(_, _, _)
serial_loop(temp, i, r) ==
    IF i > Len(temp) THEN r
    ELSE serial_loop(temp, i + 1, serial_byte(r, temp[i]))

\* A faulty encoder block: channel B decides whether the falling edge counts.
encoder_rotation_needs_b(s, a, b, last) ==
    IF a # last /\ a /\ ~b
    THEN IF s.layer # "Snippet"
         THEN set_layer(s, Layer_next(s.layer))
         ELSE s
    ELSE s

\* The encoder block: a and last are channel A's is_low() now and at the last
\* sample, b is channel B's is_low(), read and discarded.
encoder_rotation(s, a, b, last) ==
    IF a # last /\ a
    THEN IF s.layer # "Snippet"
         THEN set_layer(s, Layer_next(s.layer))
         ELSE s
    ELSE s

\* match state.layer { ... } for key index i, on r = [st, rep, calls]: the State,
\* the reports sent and the handlers invoked so far in this scan.  The handlers
\* send HID reports and leave the State alone.
dispatch(r, i) ==
    CASE r.st.layer = "Vibe" ->
           [r EXCEPT !.rep = r.rep \o handle_vibe_key(i),
                     !.calls = Append(r.calls, <<"handle_vibe_key", i>>)]
      [] r.st.layer = "Media" ->
           [r EXCEPT !.rep = r.rep \o handle_media_key(i),
                     !.calls = Append(r.calls, <<"handle_media_key", i>>)]
      [] r.st.layer = "Snippet" ->
           [r EXCEPT !.rep = r.rep \o handle_snippet_key(i),
                     !.calls = Append(r.calls, <<"handle_snippet_key", i>>)]

\* A faulty key_press: the key acts while it is held, not on its press edge.
key_press_level(r, i, pressed, prev) ==
    IF pressed
    THEN IF i = SnippetKey
         THEN [r EXCEPT !.st = toggle_snippet(r.st)]
         ELSE dispatch(r, i)
    ELSE r

\* A faulty key_press: key index 11 is dispatched like the other keys.
key_press_no_intercept(r, i, pressed, prev) ==
    IF pressed /\ ~prev
    THEN dispatch(r, i)
    ELSE r

\* A faulty key_press: the key acts on every change of its reading, the release
\* edge included.
key_press_any_change(r, i, pressed, prev) ==
    IF pressed # prev
    THEN IF i = SnippetKey
         THEN [r EXCEPT !.st = toggle_snippet(r.st)]
         ELSE dispatch(r, i)
    ELSE r

\* The body of the key loop for index i: key 12 (index 11) is the snippet toggle,
\* the other keys go to the active layer's handler.
key_press(r, i, pressed, prev) ==
    IF pressed /\ ~prev
    THEN IF i = SnippetKey
         THEN [r EXCEPT !.st = toggle_snippet(r.st)]
         ELSE dispatch(r, i)
    ELSE r

\* for (i, (&pressed, &prev)) in keys.iter().zip(prev_keys.iter()).enumerate()
RECURSIVE key_loop(_, _, _, _)
key_loop(r, i, keys, prev) ==
    IF i >= NUM_KEYS THEN r
    ELSE key_loop(key_press(r, i, keys[i], prev[i]), i + 1, keys, prev)

(***************************************************************************)
(* Inputs of a tick                                                        *)
(***************************************************************************)
Rep(c, n) == [i \in 1..n |-> c]

\* Pieces of the host's byte stream; one read_serial call returns at most the 32
\* bytes of temp_buf.
HostChunks ==
    { <<>>,
      Bytes(<<"M", "S", "G", ":", "H", "i">>) \o <<LF>>,
      PrefixMSG \o <<1>> \o Rep(UpperA, 21) \o <<LF>>,
      Bytes(<<"R", "G", "B", ":", "3", ":", "F", "F", "0", "0", "A", "A">>) \o <<LF>>,
      Bytes(<<"R", "G", "B", ":", "1", "3", ":", "F", "F", "0", "0", "0", "0">>) \o <<LF>>,
      Bytes(<<"R", "G", "B", ":", "3", ":", "Z", "Z", "Z", "Z", "Z", "Z">>) \o <<CR, LF>>,
      Bytes(<<"R", "G", "B", ":", "1", "2", ":">>),
      Bytes(<<"0", "a", "0", "B", "0", "c">>) \o <<LF>>,
      Bytes(<<"S", "T", "S", ":", "R", "U", "N">>) \o <<LF>>,
      Bytes(<<"X", "Y">>) \o <<LF>>,
      PrefixCLR \o <<LF>>,
      PrefixRST \o <<CR, LF>> }
SerialReads == { r \in HostChunks : Len(r) <= TempBufLen }

\* The keys the scan may find pressed.
ScanKeys == {0, SnippetKey}
KeySnapshots == { [i \in 0..(NUM_KEYS - 1) |-> i \in S] : S \in SUBSET ScanKeys }

(***************************************************************************)
(* The display                                                             *)
(***************************************************************************)
Layer_name(l) ==
    CASE l = "Vibe" -> "VIBE"
      [] l = "Media" -> "MEDIA"
      [] l = "Snippet" -> "SNIPPET"

default_labels(l) ==
    CASE l = "Vibe" -> <<"REC", "STOP", "CYCLE", "ESC", "ENTER", "TAB",
                         "UNDO", "REDO", "SAVE", "COPY", "PASTE", "SNIP">>
      [] l = "Media" -> <<"PREV", "PLAY", "NEXT", "MUTE", "VOL-", "VOL+",
                          "RWD", "STOP", "FWD", "MIC", "CAM", "SNIP">>
      [] l = "Snippet" -> <<"!td", "!sh", "RKT", "SNP04", "SNP05", "SNP06",
                            "SNP07", "SNP08", "SNP09", "SNP10", "SNP11", "EXIT">>

Status_icon(st) ==
    CASE st = "Idle" -> "o"
      [] st = "Run" -> "*"
      [] st = "Wait" -> "~"
      [] st = "Err" -> "X"

\* The display after init(): cleared.
DisplayBlank == [ labels |-> <<>>, text |-> <<>>, name |-> "", icon |-> "" ]

\* What the redraw draws: the twelve labels of the layer and, on the bottom line,
\* the message when there is one, else the layer's name and the status icon.
display_frame(s) ==
    IF s.message # <<>>
    THEN [ labels |-> default_labels(s.layer), text |-> s.message, name |-> "", icon |-> "" ]
    ELSE [ labels |-> default_labels(s.layer), text |-> <<>>,
           name |-> Layer_name(s.layer), icon |-> Status_icon(s.status) ]

\* A faulty redraw: the flag is cleared although nothing is drawn.
display_redraw_clears_only(s, shown) ==
    [ st |-> [s EXCEPT !.display_dirty = FALSE], frame |-> shown ]

\* The display block of a tick, shown being the frame on the display.
display_redraw(s, shown) ==
    IF s.display_dirty
    THEN [ st |-> [s EXCEPT !.display_dirty = FALSE], frame |-> display_frame(s) ]
    ELSE [ st |-> s, frame |-> shown ]

(***************************************************************************)
(* The USB globals.  Each function that touches them is the sequence of    *)
(* its steps: entering and leaving the critical section, borrowing and     *)
(* releasing a RefCell, testing and filling an Option, using a handle.     *)
(***************************************************************************)
UsbHandles == {"USB_DEVICE", "USB_HID", "USB_SERIAL"}

CsEnter == <<"enter">>
CsExit == <<"exit">>
Borrow(h) == <<"borrow", h>>
Release(h) == <<"release", h>>
Replace(h) == <<"replace", h>>
Use(hs) == <<"use", hs>>
\* if let Some(..) on every handle of hs: when one is None, the next skip steps
\* (the body) are passed over.
IfSome(hs, skip) == <<"if_some", hs, skip>>
Unmask == <<"unmask">>

\* The statics as declared (None), before main's USB setup; USBCTRL_IRQ is masked.
UsbBoot ==
    [ present |-> [h \in UsbHandles |-> FALSE],
      borrow |-> [h \in UsbHandles |-> "none"],
      cs |-> "none",
      unmasked |-> FALSE,
      main |-> <<>>,
      irq |-> <<>>,
      panicked |-> FALSE,
      bare |-> FALSE ]

\* After main's USB setup: the three handles are in place, the interrupt is unmasked.
UsbReady ==
    [ UsbBoot EXCEPT !.present = [h \in UsbHandles |-> TRUE], !.unmasked = TRUE ]

\* critical_section::with(|cs| { replace x 3 }) and NVIC::unmask.
usb_setup ==
    << CsEnter,
       Borrow("USB_HID"), Replace("USB_HID"), Release("USB_HID"),
       Borrow("USB_SERIAL"), Replace("USB_SERIAL"), Release("USB_SERIAL"),
       Borrow("USB_DEVICE"), Replace("USB_DEVICE"), Release("USB_DEVICE"),
       CsExit,
       Unmask >>

poll_usb ==
    << CsEnter,
       Borrow("USB_DEVICE"), IfSome({"USB_DEVICE"}, 6),
           Borrow("USB_HID"),
           Borrow("USB_SERIAL"),
           IfSome({"USB_HID", "USB_SERIAL"}, 1),
               Use({"USB_DEVICE", "USB_HID", "USB_SERIAL"}),
           Release("USB_SERIAL"),
           Release("USB_HID"),
       Release("USB_DEVICE"),
       CsExit >>

tick_usb ==
    << CsEnter,
       Borrow("USB_HID"), IfSome({"USB_HID"}, 1),
           Use({"USB_HID"}),
       Release("USB_HID"),
       CsExit >>

\* A faulty send_keys: the borrow of USB_HID outlives the critical section.
send_keys_usb_late_release ==
    << CsEnter,
       Borrow("USB_HID"), IfSome({"USB_HID"}, 1),
           Use({"USB_HID"}),
       CsExit,
       Release("USB_HID") >> \o poll_usb

\* send_keys as a user of the globals: the report is written inside the
\* critical section, poll_usb is called after it.
send_keys_usb ==
    << CsEnter,
       Borrow("USB_HID"), IfSome({"USB_HID"}, 1),
           Use({"USB_HID"}),
       Release("USB_HID"),
       CsExit >> \o poll_usb

read_serial ==
    << CsEnter,
       Borrow("USB_SERIAL"), IfSome({"USB_SERIAL"}, 1),
           Use({"USB_SERIAL"}),
       Release("USB_SERIAL"),
       CsExit >>

\* The interrupt handler has poll_usb's body.
USBCTRL_IRQ ==
    << CsEnter,
       Borrow("USB_DEVICE"), IfSome({"USB_DEVICE"}, 6),
           Borrow("USB_HID"),
           Borrow("USB_SERIAL"),
           IfSome({"USB_HID", "USB_SERIAL"}, 1),
               Use({"USB_DEVICE", "USB_HID", "USB_SERIAL"}),
           Release("USB_SERIAL"),
           Release("USB_HID"),
       Release("USB_DEVICE"),
       CsExit >>

\* The steps left to context th ("main" or "irq").
UsbProgram(u, th) == IF th = "main" THEN u.main ELSE u.irq
UsbSetProgram(u, th, prog) ==
    IF th = "main" THEN [u EXCEPT !.main = prog] ELSE [u EXCEPT !.irq = prog]

\* Context th runs its next step.  borrow_ref_mut on a RefCell that is already
\* borrowed panics; an access made outside the context's own critical section
\* is recorded in bare.
usb_step(u, th) ==
    LET ins == Head(UsbProgram(u, th))
        rest == Tail(UsbProgram(u, th))
        kind == ins[1]
    IN  CASE kind = "enter" -> UsbSetProgram([u EXCEPT !.cs = th], th, rest)
          [] kind = "exit" -> UsbSetProgram([u EXCEPT !.cs = "none"], th, rest)
          [] kind = "borrow" ->
                IF u.borrow[ins[2]] # "none"
                THEN [u EXCEPT !.panicked = TRUE]
                ELSE UsbSetProgram([u EXCEPT !.borrow[ins[2]] = th,
                                             !.bare = @ \/ u.cs # th], th, rest)
          [] kind = "release" ->
                UsbSetProgram([u EXCEPT !.borrow[ins[2]] = "none"], th, rest)
          [] kind = "replace" ->
                UsbSetProgram([u EXCEPT !.present[ins[2]] = TRUE,
                                        !.bare = @ \/ u.cs # th \/ u.borrow[ins[2]] # th],
                              th, rest)
          [] kind = "if_some" ->
                IF \A h \in ins[2] : u.present[h]
                THEN UsbSetProgram(u, th, rest)
                ELSE UsbSetProgram(u, th, SubSeq(rest, ins[3] + 1, Len(rest)))
          [] kind = "use" ->
                UsbSetProgram([u EXCEPT !.bare = @ \/ u.cs # th
                                                  \/ \E h \in ins[2] : u.borrow[h] # th],
                              th, rest)
          [] kind = "unmask" -> UsbSetProgram([u EXCEPT !.unmasked = TRUE], th, rest)

(***************************************************************************)
(* The rainbow demo (src/bin/rainbow-neopixels-keypress/main.rs)           *)
(***************************************************************************)
\* let mut n: u8 = 128
n_start == 128

\* (i * 256 / 12) as u8, i being a usize.
wheel_index(i) == ((i * 256) \div 12) % U8

\* (i * 256 / 12) as u8 + n as an integer, before the u8 addition stores it.
wheel_sum(i, n) == wheel_index(i) + n

\* The u8 addition overflows for some LED of frame n.
get_led_states_overflows(n) == \E i \in 0..(NUM_LEDS - 1) : wheel_sum(i, n) >= U8

wheel(wheel_pos) ==
    LET p == 255 - wheel_pos
    IN  IF p < 85
        THEN RGB8(255 - ((p * 3) % U8), 0, (p * 3) % U8)
        ELSE IF p < 170
             THEN RGB8(0, ((p - 85) * 3) % U8, 255 - (((p - 85) * 3) % U8))
             ELSE RGB8(((p - 170) * 3) % U8, 255 - (((p - 170) * 3) % U8), 0)

\* get_led_states where the addition wraps (a build without overflow checks).
get_led_states(n) == [ i \in 0..(NUM_LEDS - 1) |-> wheel(wheel_sum(i, n) % U8) ]

\* if keyN.is_low() { led_states[N - 1] = white }
demo_keys(frame, keys) ==
    [ i \in 0..(NUM_LEDS - 1) |-> IF keys[i] THEN RGB8(255, 255, 255) ELSE frame[i] ]

\* The demo before its first frame; overflow_checks is the build's setting, with
\* which an overflowing u8 addition panics instead of wrapping.
DemoBoot(checks) ==
    [ n |-> n_start,
      led_states |-> [i \in 0..(NUM_LEDS - 1) |-> RGB8_default],
      strip |-> [i \in 0..(NUM_LEDS - 1) |-> RGB8_default],
      brightness_val |-> 0,
      overflow_checks |-> checks,
      pc |-> "frame" ]

\* The demo is not the program that runs.
DemoIdle == DemoBoot(FALSE)

(***************************************************************************)
(* State machine                                                           *)
(***************************************************************************)
\* No host stream is under study.
HostIdle == [ stream |-> <<>>, done |-> 0, last |-> 0, log |-> <<>>, start |-> State_new ]

\* The peripherals when a part of the loop is run on its own: USB set up, the
\* display showing the State, no host stream under study.
Peripherals ==
    /\ usb = UsbReady
    /\ display = display_frame(state)
    /\ host = HostIdle
    /\ demo = DemoIdle

\* The strip before its first write.
LedsOff == [i \in 0..(NUM_LEDS - 1) |-> RGB8_default]

\* What the loop has not touched yet: no line handed over, no report sent, no
\* handler invoked, no string under test, the strip unwritten.
NoOutput ==
    /\ handed = <<>>
    /\ reports = <<>>
    /\ dispatched = <<>>
    /\ typed = <<>>
    /\ leds = LedsOff

\* main before the startup beep; the loop's variables hold the values they are
\* declared with.
Init ==
    /\ state = State_new
    /\ prev_keys = [i \in 0..(NUM_KEYS - 1) |-> FALSE]
    /\ last_a \in BOOLEAN
    /\ tick_counter = U32_zero
    /\ serial_buf = <<>>
    /\ serial_pos = 0
    /\ pc = "boot"
    /\ pwm = PwmReset
    /\ NoOutput
    /\ usb = UsbReady
    /\ display = DisplayBlank
    /\ host = HostIdle
    /\ demo = DemoIdle

\* set_div_int(64), set_top(top), set_duty(top / 8).
BeepOn ==
    /\ pc = "boot"
    /\ pwm' = [ div |-> BeepDiv, top |-> top, duty |-> top \div 8 ]
    /\ pc' = "beep"
    /\ UNCHANGED <<state, prev_keys, last_a, tick_counter, serial_buf, serial_pos,
                   handed, reports, dispatched, typed, leds, usb, display, host, demo>>

\* After the 80 ms delay: set_duty(0); main goes on to the loop.
BeepOff ==
    /\ pc = "beep"
    /\ pwm' = [pwm EXCEPT !.duty = 0]
    /\ pc' = "serial"
    /\ UNCHANGED <<state, prev_keys, last_a, tick_counter, serial_buf, serial_pos,
                   handed, reports, dispatched, typed, leds, usb, display, host, demo>>

\* A faulty read loop: the line buffer is a local of the tick, empty at every read.
SerialRead_line_per_read(reads) ==
    \E temp \in reads :
        LET r == serial_loop(temp, 1, [ st |-> state, buf |-> <<>>,
                                        pos |-> 0, hd |-> <<>> ])
        IN  /\ state' = r.st
            /\ serial_buf' = r.buf
            /\ serial_pos' = r.pos
            /\ handed' = r.hd

\* read_serial and the loop over the bytes it returned, the read being one of reads.
SerialRead(reads) ==
    \E temp \in reads :
        LET r == serial_loop(temp, 1, [ st |-> state, buf |-> serial_buf,
                                        pos |-> serial_pos, hd |-> <<>> ])
        IN  /\ state' = r.st
            /\ serial_buf' = r.buf
            /\ serial_pos' = r.pos
            /\ handed' = r.hd

\* tick_counter increment and the serial read loop.  tick_usb, every tenth tick,
\* touches the USB handles only.
SerialStep ==
    /\ pc = "serial"
    /\ tick_counter[1] = 0 /\ tick_counter[2] < MaxTicks
    /\ tick_counter' = u32_wrapping_add1(tick_counter)
    /\ SerialRead(SerialReads)
    /\ pc' = "encoder"
    /\ UNCHANGED <<prev_keys, last_a, reports, dispatched, typed, leds, pwm, usb, display, host, demo>>

\* Channel B is read and ignored.
EncoderStep ==
    /\ pc = "encoder"
    /\ \E a \in BOOLEAN, b \in BOOLEAN :
         /\ state' = encoder_rotation(state, a, b, last_a)
         /\ last_a' = a
    /\ pc' = "display"
    /\ UNCHANGED <<prev_keys, tick_counter, serial_buf, serial_pos, handed,
                   reports, dispatched, typed, leds, pwm, usb, display, host, demo>>

\* if state.display_dirty { clear, draw the labels and the bottom line, flush,
\* clear the flag }: the results of the draws and of the flush are dropped.
DisplayStep ==
    /\ pc = "display"
    /\ state' = display_redraw(state, display).st
    /\ display' = display_redraw(state, display).frame
    /\ pc' = "keys"
    /\ UNCHANGED <<prev_keys, last_a, tick_counter, serial_buf, serial_pos, handed,
                   reports, dispatched, typed, leds, pwm, usb, host, demo>>

\* The key scan and the key loop, the scan finding one of snapshots.
KeyScan(snapshots) ==
    /\ pc = "keys"
    /\ \E keys \in snapshots :
         LET r == key_loop([ st |-> state, rep |-> <<>>, calls |-> <<>> ], 0, keys, prev_keys)
         IN  /\ state' = r.st
             /\ reports' = r.rep
             /\ dispatched' = r.calls
             /\ prev_keys' = keys
    /\ pc' = "leds"
    /\ UNCHANGED <<last_a, tick_counter, serial_buf, serial_pos, handed, typed, leds, pwm, usb, display, host, demo>>

KeysStep == KeyScan(KeySnapshots)

\* poll_usb, compute_leds and the strip write, then the 10 ms delay: none of them
\* writes the State.  The tick is over: its reports are with the host.  The
\* write's Result is unwrapped: on Err main panics, and panic_halt stops it there.
LedsStep ==
    /\ pc = "leds"
    /\ \E written \in BOOLEAN :
         IF written
         THEN /\ leds' = compute_leds(state, tick_counter)
              /\ pc' = "serial"
         ELSE /\ leds' = leds
              /\ pc' = "halted"
    /\ reports' = <<>>
    /\ dispatched' = <<>>
    /\ UNCHANGED <<state, prev_keys, last_a, tick_counter, serial_buf, serial_pos, handed,
                   typed, pwm, usb, display, host, demo>>

Next == BeepOn \/ BeepOff \/ SerialStep \/ EncoderStep \/ DisplayStep \/ KeysStep \/ LedsStep

Spec == Init /\ [][Next]_vars

(***************************************************************************)
(* Events of a step, read off the loop's own variables                     *)
(***************************************************************************)
\* This step is the encoder block and channel A went from high to low.
EncoderAdvanceEvent == pc = "encoder" /\ ~last_a /\ last_a'
\* This step is the key scan and key index 11 has a press edge.
TogglePressEvent == pc = "keys" /\ ~prev_keys[SnippetKey] /\ prev_keys'[SnippetKey]
\* The state after one encoder advance event.
Advance(s) == encoder_rotation(s, TRUE, FALSE, FALSE)

(***************************************************************************)
(* C1..C5: the layer state machine                                         *)
(***************************************************************************)
\* C1: whenever a toggle leaves the overlay the active layer becomes the layer that
\* was active right before the overlay was entered: entering the overlay saves the
\* active layer in prev_layer, nothing changes prev_layer while the overlay is
\* active, and leaving the overlay restores prev_layer.  Two consecutive toggles
\* from a non-overlay layer return to it, and from boot the first toggle gives
\* (Snippet, prev Vibe) and the second gives Vibe.
C1_ToggleRestoresLayer ==
    /\ [][ /\ (state.layer # "Snippet" /\ state'.layer = "Snippet")
                => state'.prev_layer = state.layer
           /\ (state.layer = "Snippet" /\ state'.layer = "Snippet")
                => state'.prev_layer = state.prev_layer
           /\ (state.layer = "Snippet" /\ state'.layer # "Snippet")
                => (TogglePressEvent /\ state'.layer = state.prev_layer) ]_vars
    /\ [](state.layer # "Snippet"
            => /\ toggle_snippet(state).layer = "Snippet"
               /\ toggle_snippet(toggle_snippet(state)).layer = state.layer)
    /\ toggle_snippet(State_new).layer = "Snippet"
    /\ toggle_snippet(State_new).prev_layer = "Vibe"
    /\ toggle_snippet(toggle_snippet(State_new)).layer = "Vibe"

\* A toggle has just left the overlay and landed on Media (the display step left
\* the flag clear, so a set flag after the key scan is this tick's toggle).
C1_Witness ==
    /\ pc = "leds"
    /\ state.display_dirty
    /\ prev_keys[SnippetKey]
    /\ state.layer = "Media"

\* C2 as stated: from a non-overlay layer three consecutive encoder advances
\* return to the starting layer.
C2_ThreeAdvancesReturn ==
    state.layer # "Snippet" => Advance(Advance(Advance(state))).layer = state.layer

\* C2 amended: the encoder cycles over the two non-overlay layers, so two
\* consecutive advances return to the starting layer and three end on the other
\* non-overlay layer.
C2_TwoAdvancesReturn ==
    state.layer # "Snippet"
        => /\ Advance(Advance(state)).layer = state.layer
           /\ Advance(Advance(Advance(state))).layer = Advance(state).layer
           /\ Advance(state).layer \in (Layer \ {"Snippet", state.layer})

\* The third tick's encoder block has just advanced back to Vibe: no command
\* arrived, so the set flag comes from the encoder, and the layer it left was Media.
C2_Witness ==
    /\ pc = "display"
    /\ tick_counter = <<0, 3>>
    /\ handed = <<>>
    /\ last_a
    /\ state.display_dirty
    /\ state.layer = "Vibe"

\* C3: (layer = Snippet) changes only on a press edge of key index 11; an encoder
\* step while the overlay is active leaves layer and prev_layer alone, an encoder
\* step from a non-overlay layer never yields the overlay, and the serial step
\* (every command it processes) never makes the overlay active or inactive.
C3_OverlayOnlyByToggle ==
    [][ /\ ((state.layer = "Snippet") # (state'.layer = "Snippet")) => TogglePressEvent
        /\ (pc = "encoder" /\ state.layer = "Snippet")
             => (state'.layer = state.layer /\ state'.prev_layer = state.prev_layer)
        /\ (pc = "encoder" /\ state.layer # "Snippet") => state'.layer # "Snippet"
        /\ pc = "serial" => ((state.layer = "Snippet") <=> (state'.layer = "Snippet")) ]_vars

\* The overlay is active after an encoder block in which channel A reads low.
C3_Witness ==
    /\ pc = "display"
    /\ state.layer = "Snippet"
    /\ state.prev_layer = "Media"
    /\ last_a

\* C4: set_layer with the overlay as target keeps layer and prev_layer; with a
\* non-overlay target L it sets both to L, so a toggle into the overlay and out
\* again lands on L.
C4_SetLayer ==
    /\ set_layer(state, "Snippet").layer = state.layer
    /\ set_layer(state, "Snippet").prev_layer = state.prev_layer
    /\ \A L \in Layer \ {"Snippet"} :
         LET s2 == set_layer(state, L)
         IN  /\ s2.layer = L
             /\ s2.prev_layer = L
             /\ toggle_snippet(s2).layer = "Snippet"
             /\ toggle_snippet(toggle_snippet(s2)).layer = L

\* set_layer(Media) has acted: the first tick's encoder block moved Vibe to Media.
C4_Witness ==
    /\ pc = "display"
    /\ tick_counter = <<0, 1>>
    /\ state.layer = "Media"
    /\ state.prev_layer = "Media"

\* C5 as stated: every call of advance, toggle_overlay and set(layer) sets
\* display_dirty, the no-op and rejected calls included.
C5_EveryCallSetsDirty ==
    /\ [][ /\ EncoderAdvanceEvent => state'.display_dirty
           /\ TogglePressEvent => state'.display_dirty ]_vars
    /\ [](\A L \in Layer : set_layer(state, L).display_dirty)

\* C5 amended: toggle_overlay sets display_dirty on every call; advance sets it
\* when the active layer is not the overlay and set(layer) when the target is not
\* the overlay; an advance while the overlay is active and a set with the overlay
\* as target leave the whole state, display_dirty included, as it was.
C5_EffectiveCallsSetDirty ==
    /\ [][ /\ (EncoderAdvanceEvent /\ state.layer # "Snippet") => state'.display_dirty
           /\ (pc = "encoder" /\ state.layer = "Snippet") => state' = state
           /\ TogglePressEvent => state'.display_dirty ]_vars
    /\ [](/\ \A L \in Layer \ {"Snippet"} : set_layer(state, L).display_dirty
          /\ set_layer(state, "Snippet") = state
          /\ toggle_snippet(state).display_dirty)

\* The overlay is active and the display is clean after an encoder block in which
\* channel A reads low: an advance there has set nothing.
C5_Witness ==
    /\ pc = "display"
    /\ state.layer = "Snippet"
    /\ last_a
    /\ ~state.display_dirty

(***************************************************************************)
(* The parser on its own: a command line is complete in the line buffer,   *)
(* the State is any the loop can have reached, and a terminator arrives.   *)
(***************************************************************************)
\* The first n elements of a sequence.
Take(s, n) == SubSeq(s, 1, IF Len(s) < n THEN Len(s) ELSE n)
IsPrintable(c) == c >= 32 /\ c <= 126

\* MSG payloads: empty, short, 30 and 60 printable characters, only control bytes,
\* the edges of the printable range, and payloads longer than 20 bytes with a
\* control byte among the first 20.
MsgPayloads ==
    { <<>>,
      Bytes(<<"H", "i">>),
      Rep(UpperA, 30),
      Rep(LowerA, 60),
      <<1, 127, 200>>,
      <<31, 32, 126, 127>>,
      <<1>> \o Rep(UpperA, 19),
      <<1>> \o Rep(UpperA, 21),
      Rep(UpperA, 10) \o <<1>> \o Rep(LowerA, 15) }
MsgLines == { PrefixMSG \o p : p \in MsgPayloads }

\* RGB command lines written from a key number, a colour and a digit alphabet.
HexUpper == Bytes(<<"0", "1", "2", "3", "4", "5", "6", "7", "8", "9", "A", "B", "C", "D", "E", "F">>)
HexLower == Bytes(<<"0", "1", "2", "3", "4", "5", "6", "7", "8", "9", "a", "b", "c", "d", "e", "f">>)
Hex2(v, tab) == <<tab[(v \div 16) + 1], tab[(v % 16) + 1]>>
Hex6(c, tab) == Hex2(c[1], tab) \o Hex2(c[2], tab) \o Hex2(c[3], tab)
Dec(n) == IF n < 10 THEN <<Digit0 + n>> ELSE <<Digit0 + (n \div 10), Digit0 + (n % 10)>>
Dec2(n) == <<Digit0 + (n \div 10), Digit0 + (n % 10)>>
RgbLine(num, hex) == PrefixRGB \o num \o <<Colon>> \o hex
TestColors == { <<255, 0, 170>>, <<0, 0, 0>>, <<1, 2, 3>>, <<171, 205, 239>>, <<16, 9, 154>> }

\* The well-formed RGB lines as <<line, n, colour>>: every key number with every
\* test colour in upper-case digits, and zero-padded key numbers with lower-case
\* digits.
RgbCases ==
    { <<RgbLine(Dec(n), Hex6(c, HexUpper)), n, c>> : n \in 1..NUM_KEYS, c \in TestColors }
    \cup { <<RgbLine(Dec2(n), Hex6(c, HexLower)), n, c>> :
              n \in 1..NUM_KEYS, c \in {<<255, 0, 170>>, <<171, 205, 239>>} }
RgbLines == { t[1] : t \in RgbCases }
RgbCaseOf(line) == CHOOSE t \in RgbCases : t[1] = line

\* Malformed command lines: shorter than 4 bytes, no known prefix, RGB without a
\* separator, with a bad key number, or with a colour that is not six hex digits.
GoodHex == Hex6(<<255, 0, 0>>, HexUpper)
BadKeyNums ==
    { <<>>, Dec(0), Dec2(0), Dec(13), Dec(99), Bytes(<<"1", "2", "3">>), Bytes(<<"0", "0", "3">>),
      Bytes(<<"x">>), Bytes(<<"1", "a">>), Bytes(<<"a", "1">>), Bytes(<<"-", "1">>),
      Bytes(<<" ", "3">>), Bytes(<<"3", " ">>), <<Digit0 - 1>>, <<Digit9 + 1>> }
BadHexes ==
    { <<>>, Bytes(<<"Z", "Z", "Z", "Z", "Z", "Z">>), Bytes(<<"F", "F", "0", "0", "A">>),
      Bytes(<<"F", "F", "0", "0", "A", "A", "0">>), Bytes(<<"F", "F", "0", "0", "A", "G">>),
      Bytes(<<"G", "F", "0", "0", "A", "A">>), Bytes(<<"F", "F", "0", "g", "A", "A">>),
      Bytes(<<"F", "F", ":", "0", "0", "A", "A">>), Bytes(<<"#", "F", "F", "0", "0", "A">>),
      <<UpperA - 1>> \o Rep(Digit0, 5), Rep(Digit0, 5) \o <<LowerF + 1>>,
      Bytes(<<"F", "F", "0", "0", "A", "A">>) \o <<Colon>> }
MalformedCommands ==
    { Bytes(<<"R">>), Bytes(<<"R", "S">>), Bytes(<<"R", "S", "T">>), Bytes(<<"M", "S", "G">>),
      Bytes(<<"C", "L", "R">>), Bytes(<<"X", "Y">>),
      Bytes(<<"X", "Y", "Z", ":">>), Bytes(<<"r", "s", "t", ":">>), Bytes(<<"m", "s", "g", ":", "h", "i">>),
      Bytes(<<" ", "R", "S", "T", ":">>), Bytes(<<"R", "S", "T", ";">>), Bytes(<<"R", "G", "B", "3", ":">>),
      Bytes(<<"H", "E", "L", "L", "O">>), Bytes(<<"R", "S", "T", " ", ":">>),
      Bytes(<<"r", "g", "b", ":", "3", ":">>) \o GoodHex,
      PrefixRGB, PrefixRGB \o Dec(3), PrefixRGB \o Dec(3) \o GoodHex, PrefixRGB \o GoodHex }
    \cup { RgbLine(num, GoodHex) : num \in BadKeyNums }
    \cup { RgbLine(Dec(3), hex) : hex \in BadHexes }
    \cup { RgbLine(num, hex) : num \in {Dec(0), Dec(13)}, hex \in BadHexes }

RstLines == { PrefixRST, PrefixRST \o Bytes(<<"x">>) }
ClrLines == { PrefixCLR, PrefixCLR \o Bytes(<<"x">>) }
\* STS lines with one of the four names as <<line, status>>, and STS lines with
\* another name: empty, another case, bytes after or before the name, a cut name.
StsCases ==
    { <<PrefixSTS \o NameIDLE, "Idle">>, <<PrefixSTS \o NameRUN, "Run">>,
      <<PrefixSTS \o NameWAIT, "Wait">>, <<PrefixSTS \o NameERR, "Err">> }
StsKnownLines == { t[1] : t \in StsCases }
StsCaseOf(line) == CHOOSE t \in StsCases : t[1] = line
StsUnknownLines ==
    { PrefixSTS \o n : n \in
        { <<>>, Bytes(<<"r", "u", "n">>), Bytes(<<"I", "d", "l", "e">>), Bytes(<<"E", "r", "r">>),
          NameRUN \o Bytes(<<"X">>), NameRUN \o Bytes(<<" ">>), NameRUN \o <<0>>,
          NameIDLE \o Bytes(<<"I", "D", "L", "E">>), NameERR \o Bytes(<<"O", "R">>),
          NameWAIT \o Bytes(<<"I", "N", "G">>), Bytes(<<" ">>) \o NameERR, Bytes(<<":">>) \o NameRUN,
          Bytes(<<"I", "D", "L">>), Bytes(<<"W", "A", "I">>), Bytes(<<"D", "O", "N", "E">>) } }
StsLines == StsKnownLines \cup StsUnknownLines

CommandLines == MsgLines \cup RgbLines \cup MalformedCommands \cup RstLines \cup ClrLines \cup StsLines

\* States the loop can have reached: the layer pairs the encoder and the toggle
\* produce, messages, statuses and override tables set by earlier MSG, STS and RGB
\* commands, the dirty flag set or cleared by the display step.
ParserTables ==
    { None,
      Some([i \in 0..(NUM_KEYS - 1) |-> RGB8_default]),
      Some([i \in 0..(NUM_KEYS - 1) |->
              IF i = 2 THEN RGB8(1, 2, 3) ELSE IF i = 11 THEN RGB8(10, 11, 12)
              ELSE RGB8_default]) }
ParserStates ==
    { [ layer |-> lp[1], prev_layer |-> lp[2], message |-> m, status |-> st,
        custom_colors |-> cc, display_dirty |-> d ] :
        lp \in { <<"Vibe", "Vibe">>, <<"Media", "Media">>, <<"Snippet", "Vibe">>, <<"Snippet", "Media">> },
        m \in { <<>>, Rep(UpperA, 20) },
        st \in { "Idle", "Run", "Err" },
        cc \in ParserTables,
        d \in BOOLEAN }

InitParser ==
    /\ state \in ParserStates
    /\ serial_buf \in CommandLines
    /\ serial_pos = Len(serial_buf)
    /\ prev_keys = [i \in 0..(NUM_KEYS - 1) |-> FALSE]
    /\ last_a = FALSE
    /\ tick_counter = <<0, 1>>
    /\ pc = "serial"
    /\ pwm = PwmSilent
    /\ NoOutput
    /\ Peripherals

\* A line terminator arrives: the read loop's body for one byte, LF or CR.
Terminator ==
    /\ pc = "serial"
    /\ \E c \in {LF, CR} :
         LET r == serial_byte([ st |-> state, buf |-> serial_buf,
                                pos |-> serial_pos, hd |-> handed ], c)
         IN  /\ state' = r.st
             /\ serial_buf' = r.buf
             /\ serial_pos' = r.pos
             /\ handed' = r.hd
    /\ UNCHANGED <<prev_keys, last_a, tick_counter, pc, reports, dispatched, typed, leds, pwm, usb, display, host, demo>>

NextParser == Terminator

SpecParser == InitParser /\ [][NextParser]_vars

(***************************************************************************)
(* C6..C10: the serial commands                                            *)
(***************************************************************************)
\* The step hands the buffered line to process_command.
LineProcessed == serial_pos > 0 /\ serial_pos' = 0
\* The override of key index i: unset, (0,0,0), when the table is absent.
OverrideAt(s, i) ==
    IF IsSome(s.custom_colors) THEN Unwrap(s.custom_colors)[i] ELSE RGB8_default

\* C6 as stated: MSG:<payload> stores the first 20 printable bytes of the payload
\* (the payload with every other byte removed, cut to 20 characters).
C6_MsgFirst20Printable ==
    (Len(handed) = 1 /\ handed[1] \in MsgLines)
        => state.message = Take(SelectSeq(SliceFrom(handed[1], 4), IsPrintable), 20)

\* C7: RGB:<n>:<hex6> with n in 1..12 sets the override of key index n-1 to the
\* colour the six hex digits denote and leaves the other eleven overrides, the
\* message, the status and the layer as they were.
C7_RgbSetsOverride ==
    [][ (LineProcessed /\ serial_buf \in RgbLines)
          => LET n == RgbCaseOf(serial_buf)[2]
                 c == RgbCaseOf(serial_buf)[3]
             IN  /\ IsSome(state'.custom_colors)
                 /\ OverrideAt(state', n - 1) = c
                 /\ \A i \in (0..(NUM_KEYS - 1)) \ {n - 1} :
                      OverrideAt(state', i) = OverrideAt(state, i)
                 /\ state'.message = state.message
                 /\ state'.status = state.status
                 /\ state'.layer = state.layer
                 /\ state'.prev_layer = state.prev_layer ]_vars

\* RGB:3:FF00AA was processed on a table that held (1,2,3) at index 2 and
\* (10,11,12) at index 11: index 2 holds (255,0,170) and index 11 kept its colour.
C7_Witness ==
    /\ handed = << RgbLine(Dec(3), Hex6(<<255, 0, 170>>, HexUpper)) >>
    /\ OverrideAt(state, 2) = <<255, 0, 170>>
    /\ OverrideAt(state, 11) = <<10, 11, 12>>
    /\ state.message = Rep(UpperA, 20)
    /\ state.status = "Run"

\* C8: a malformed command line changes no field of the state; an absent override
\* table stays absent.
C8_MalformedNoMutation ==
    [][ (LineProcessed /\ serial_buf \in MalformedCommands)
          => /\ state' = state
             /\ (~IsSome(state.custom_colors) => ~IsSome(state'.custom_colors)) ]_vars

\* RGB:13:FF0000 was processed with the override table absent and the display
\* clean, and both are as they were.
C8_Witness ==
    /\ handed = << RgbLine(Dec(13), GoodHex) >>
    /\ serial_pos = 0
    /\ ~IsSome(state.custom_colors)
    /\ ~state.display_dirty
    /\ state.message = Rep(UpperA, 20)

\* C9: RST: yields an empty message, an absent override table and status Idle
\* whatever the state before, and keeps layer and prev_layer.
C9_RstResets ==
    [][ (LineProcessed /\ serial_buf \in RstLines)
          => /\ state'.message = <<>>
             /\ ~IsSome(state'.custom_colors)
             /\ \A i \in 0..(NUM_KEYS - 1) : OverrideAt(state', i) = RGB8_default
             /\ state'.status = "Idle"
             /\ state'.layer = state.layer
             /\ state'.prev_layer = state.prev_layer ]_vars

\* RST: was processed with the overlay active over Media.
C9_Witness ==
    /\ handed = << PrefixRST >>
    /\ serial_pos = 0
    /\ state.layer = "Snippet"
    /\ state.prev_layer = "Media"
    /\ state.message = <<>>
    /\ ~IsSome(state.custom_colors)
    /\ state.status = "Idle"

\* C10: CLR: empties the message and keeps the override table, the status, the
\* layer and prev_layer.
C10_ClrClearsMessageOnly ==
    [][ (LineProcessed /\ serial_buf \in ClrLines)
          => /\ state'.message = <<>>
             /\ state'.custom_colors = state.custom_colors
             /\ state'.status = state.status
             /\ state'.layer = state.layer
             /\ state'.prev_layer = state.prev_layer ]_vars

\* CLR: was processed with overrides and status Run set before: both are there.
C10_Witness ==
    /\ handed = << PrefixCLR >>
    /\ serial_pos = 0
    /\ state.message = <<>>
    /\ OverrideAt(state, 2) = <<1, 2, 3>>
    /\ state.status = "Run"
    /\ state.layer = "Media"

(***************************************************************************)
(* C11: the STS command                                                    *)
(***************************************************************************)
\* C11: STS:<name> sets the status to Idle, Run, Wait or Err exactly when <name> is
\* the whole byte string IDLE, RUN, WAIT or ERR; with any other name the status
\* keeps its value; in both cases message, overrides, layer and prev_layer are
\* unchanged.
C11_StsExactName ==
    [][ (LineProcessed /\ serial_buf \in StsLines)
          => /\ serial_buf \in StsKnownLines => state'.status = StsCaseOf(serial_buf)[2]
             /\ serial_buf \in StsUnknownLines => state'.status = state.status
             /\ state'.message = state.message
             /\ state'.custom_colors = state.custom_colors
             /\ state'.layer = state.layer
             /\ state'.prev_layer = state.prev_layer ]_vars

\* STS:WAIT was processed on a state with another status, a message and overrides.
C11_Witness ==
    /\ handed = << PrefixSTS \o NameWAIT >>
    /\ serial_pos = 0
    /\ state.status = "Wait"
    /\ state.message = Rep(UpperA, 20)
    /\ OverrideAt(state, 11) = <<10, 11, 12>>
    /\ state.layer = "Snippet"

(***************************************************************************)
(* The line buffer on its own: reads follow one another, the host sending  *)
(* lines longer than the buffer.                                           *)
(***************************************************************************)
\* Reads that fill the buffer: 32, 31 and 9 bytes without a terminator,
\* a read whose first bytes belong to the long line and whose rest is a command,
\* commands on their own, bare terminators, and the empty read.
LongLineChunks ==
    { <<>>,
      Rep(UpperA, TempBufLen),
      Rep(LowerA, TempBufLen - 1),
      Rep(Digit0, 9),
      Bytes(<<"X", "Y", "Z">>) \o <<LF>> \o PrefixRST \o <<LF>>,
      PrefixSTS \o NameRUN \o <<LF>>,
      PrefixSTS \o NameERR \o <<CR, LF>>,
      <<CR>> }
LongLineReads == { r \in LongLineChunks : Len(r) <= TempBufLen }

\* The serial part of a tick, on ticks in which encoder and keys are at rest.
LineRead ==
    /\ pc = "serial"
    /\ SerialRead(LongLineReads)
    /\ UNCHANGED <<prev_keys, last_a, tick_counter, pc, reports, dispatched, typed, leds, pwm, usb, display, host, demo>>

\* The loop is entered: the state the startup beep leaves.
InitSerial ==
    /\ state = State_new
    /\ prev_keys = [i \in 0..(NUM_KEYS - 1) |-> FALSE]
    /\ last_a \in BOOLEAN
    /\ tick_counter = U32_zero
    /\ serial_buf = <<>>
    /\ serial_pos = 0
    /\ pc = "serial"
    /\ pwm = PwmSilent
    /\ NoOutput
    /\ Peripherals

NextSerial == LineRead

SpecSerial == InitSerial /\ [][NextSerial]_vars

(***************************************************************************)
(* C12: the line buffer never overflows                                    *)
(***************************************************************************)
\* The read loop's variables as serial_byte takes them.
LineState == [ st |-> state, buf |-> serial_buf, pos |-> serial_pos, hd |-> <<>> ]
\* Bytes that are no terminator.
DataBytes == { 0, 1, 9, 11, 12, 14, 32, Colon, Digit0, UpperA, LowerA, 126, 127, 128, 255 }

\* C12: the write position never exceeds the capacity (64) and the buffered bytes
\* are the bytes before it; with the buffer full a byte that is no terminator
\* changes neither the buffered bytes nor the position (nor anything else); a
\* terminator then hands the 64 buffered bytes over and resets the position to 0,
\* and the line that follows is parsed from its own first byte.
C12_LineBufferBounded ==
    /\ serial_pos >= 0 /\ serial_pos <= SerialBufLen
    /\ Len(serial_buf) = serial_pos
    /\ serial_pos = SerialBufLen
         => /\ \A c \in DataBytes : serial_byte(LineState, c) = LineState
            /\ \A c \in {LF, CR} :
                 LET r == serial_byte(LineState, c)
                 IN  /\ r.pos = 0
                     /\ r.hd = << serial_buf >>
                     /\ serial_loop(PrefixRST \o <<LF>>, 1, r).hd = << serial_buf, PrefixRST >>
                     /\ serial_loop(PrefixRST \o <<LF>>, 1, r).pos = 0
    /\ \A i \in 1..Len(handed) : Len(handed[i]) >= 1 /\ Len(handed[i]) <= SerialBufLen

\* One read held the last bytes of a line longer than the buffer and, after its
\* terminator, RST: the first 64 bytes of the long line were handed over, then
\* RST: on its own, which cleared the status an earlier command had set.
C12_Witness ==
    /\ handed = << Rep(UpperA, TempBufLen) \o Rep(LowerA, TempBufLen - 1) \o Bytes(<<"X">>), PrefixRST >>
    /\ serial_pos = 0
    /\ state.status = "Idle"
    /\ state.display_dirty

(***************************************************************************)
(* The key scan on its own: any key or pair of keys down, in any layer.    *)
(***************************************************************************)
\* States the loop can be in at the key scan: the display step has left the dirty
\* flag clear.
KeyStates ==
    { s \in ParserStates :
        /\ ~s.display_dirty
        /\ \/ (s.message = <<>> /\ s.status = "Idle" /\ s.custom_colors = None)
           \/ (s.message # <<>> /\ s.status = "Run" /\ s.custom_colors # None
                 /\ OverrideAt(s, 2) # RGB8_default) }

\* Scans with at most two keys down.
PairSnapshots ==
    { [i \in 0..(NUM_KEYS - 1) |-> i \in S] :
        S \in { T \in SUBSET (0..(NUM_KEYS - 1)) : Cardinality(T) <= 2 } }

InitKeys ==
    /\ state \in KeyStates
    /\ prev_keys \in PairSnapshots
    /\ last_a = FALSE
    /\ tick_counter = <<0, 1>>
    /\ serial_buf = <<>>
    /\ serial_pos = 0
    /\ pc = "keys"
    /\ pwm = PwmSilent
    /\ NoOutput
    /\ Peripherals

KeyScanAny == KeyScan(PairSnapshots)

NextKeys == KeyScanAny

SpecKeys == InitKeys /\ [][NextKeys]_vars

(***************************************************************************)
(* C13..C15: the key dispatch and the HID reports                          *)
(***************************************************************************)
\* This step is the key scan and key index i has a press edge, a release edge, or
\* stays down.
PressEdge(i) == pc = "keys" /\ ~prev_keys[i] /\ prev_keys'[i]
ReleaseEdge(i) == pc = "keys" /\ prev_keys[i] /\ ~prev_keys'[i]
StaysDown(i) == pc = "keys" /\ prev_keys[i] /\ prev_keys'[i]
\* The keys other than the toggle key.
LayerKeys == (0..(NUM_KEYS - 1)) \ {SnippetKey}

\* C13: a press edge of key index 11 toggles the overlay in every layer and emits
\* no HID report: the scan's reports are those of the same scan with key 11 up,
\* and none when no other key has a press edge; no layer handler is invoked for
\* index 11, one is invoked per press edge of another key; without a press edge
\* of key 11 layer and prev_layer stay as they were.
C13_ToggleKeyIntercepted ==
    [][ pc = "keys"
          => /\ (PressEdge(SnippetKey) /\ state.layer # "Snippet")
                  => (state'.layer = "Snippet" /\ state'.prev_layer = state.layer)
             /\ (PressEdge(SnippetKey) /\ state.layer = "Snippet")
                  => (state'.layer = state.prev_layer /\ state'.prev_layer = state.prev_layer)
             /\ ~PressEdge(SnippetKey)
                  => (state'.layer = state.layer /\ state'.prev_layer = state.prev_layer)
             /\ \A j \in 1..Len(dispatched') : dispatched'[j][2] # SnippetKey
             /\ Len(dispatched') = Cardinality({ i \in LayerKeys : PressEdge(i) })
             /\ (\A i \in LayerKeys : ~PressEdge(i)) => reports' = <<>>
             /\ reports' = key_loop([ st |-> state, rep |-> <<>>, calls |-> <<>> ], 0,
                                    [prev_keys' EXCEPT ![SnippetKey] = FALSE], prev_keys).rep ]_vars

\* Key 11 alone went down with the overlay active over Media: the layer is Media
\* again, no report was sent and no handler invoked.
C13_Witness ==
    /\ pc = "leds"
    /\ prev_keys = [i \in 0..(NUM_KEYS - 1) |-> i = SnippetKey]
    /\ state.layer = "Media"
    /\ state.prev_layer = "Media"
    /\ state.display_dirty
    /\ reports = <<>>
    /\ dispatched = <<>>

\* C14 as stated: the chord of Vibe key index 0 is sent on the key's press edge
\* without a release, no report is sent for the key while it stays down, and the
\* empty report is sent on the key's release edge (no other key changing).
C14_HoldUntilReleaseEdge ==
    [][ (pc = "keys" /\ state.layer = "Vibe"
           /\ \A i \in (0..(NUM_KEYS - 1)) \ {0} : prev_keys'[i] = prev_keys[i])
          => /\ PressEdge(0) => reports' = << <<"LeftGUI", "LeftShift", "R">> >>
             /\ StaysDown(0) => reports' = <<>>
             /\ ReleaseEdge(0) => reports' = << <<>> >> ]_vars

\* C15: in the reports of a key scan every non-empty report is directly followed
\* by the empty report, and the last report of every key action is the empty
\* report; a scan's reports start with a non-empty one, so the reports of
\* consecutive scans keep the alternation.
C15_EveryChordReleased ==
    /\ Len(reports) % 2 = 0
    /\ \A j \in 1..Len(reports) :
         IF j % 2 = 1 THEN reports[j] # <<>> ELSE reports[j] = <<>>
    /\ \A key \in 0..(NUM_KEYS - 1) :
         \A action \in { handle_vibe_key(key), handle_media_key(key), handle_snippet_key(key) } :
             action # <<>> => action[Len(action)] = <<>>

\* The scan found Vibe key index 3 newly down: Escape was sent twice, each time
\* followed by the empty report.
C15_Witness ==
    /\ pc = "leds"
    /\ dispatched = << <<"handle_vibe_key", 3>> >>
    /\ reports = << <<"Escape">>, <<>>, <<"Escape">>, <<>> >>

(***************************************************************************)
(* send_string on its own: one call with a string of any characters.       *)
(***************************************************************************)
\* Characters as code points: every one below 256 and some beyond.
TypeChars == (0..255) \cup { 233, 8217, 65279, 65535, 128640, 1114111 }

\* Strings to type: every character alone, every letter in both cases, the
\* compiled-in snippets, and strings with unsupported characters at the start,
\* in the middle, at the end and in a row.
TypeStrings ==
    { <<c>> : c \in TypeChars }
    \cup { <<c, c - 32>> : c \in LowerA..Ord("z") }
    \cup { snippets[i] : i \in 1..Len(snippets) }
    \cup { <<>>,
           <<Ord("d"), 1, Ord("D")>>,
           <<Ord("~"), Ord("o"), Ord("k")>>,
           <<Ord("H"), Ord("i"), Ord("!"), LF, TAB, Ord("?")>>,
           <<Ord("a"), Ord("-"), Ord("_"), 233, Ord("Z"), Ord(";"), Ord(":")>>,
           <<Ord("#"), 128640, Ord("#")>>,
           <<Ord("1"), Ord(" "), Ord("2"), CR, Ord("3")>> }

InitType ==
    /\ state = State_new
    /\ prev_keys = [i \in 0..(NUM_KEYS - 1) |-> FALSE]
    /\ last_a = FALSE
    /\ tick_counter = <<0, 1>>
    /\ serial_buf = <<>>
    /\ serial_pos = 0
    /\ pc = "keys"
    /\ pwm = PwmSilent
    /\ handed = <<>>
    /\ reports = <<>>
    /\ dispatched = <<>>
    /\ typed \in TypeStrings
    /\ leds = LedsOff
    /\ Peripherals

\* send_string(typed, delay), called from the key scan.
TypeString ==
    /\ pc = "keys"
    /\ reports' = send_string(typed, 1)
    /\ pc' = "leds"
    /\ UNCHANGED <<state, prev_keys, last_a, tick_counter, serial_buf, serial_pos, handed,
                   dispatched, typed, leds, pwm, usb, display, host, demo>>

NextType == TypeString

SpecType == InitType /\ [][NextType]_vars

(***************************************************************************)
(* C16, C17: the layout remapper and typed strings                         *)
(***************************************************************************)
IsLowerLetter(c) == c >= LowerA /\ c <= Ord("z")
IsUpperLetter(c) == c >= UpperA /\ c <= Ord("Z")
\* The supported set: letters, digits, space, newline, tab, '!', ':' and ';'.
IsSupportedChar(c) ==
    \/ IsLowerLetter(c)
    \/ IsUpperLetter(c)
    \/ (c >= Digit0 /\ c <= Digit9)
    \/ c \in { Ord(" "), LF, TAB, Ord("!"), Colon, Ord(";") }

\* C16: for every letter in the typed string the remapper gives the lower-case and
\* the upper-case form the same physical key, with shift = false for the lower
\* case and shift = true for the upper case; for every character outside the
\* supported set it gives None, and for every character inside a key.
C16_RemapLetterPairs ==
    \A i \in 1..Len(typed) :
        LET c == typed[i]
            lower == IF IsUpperLetter(c) THEN c + 32 ELSE c
            lo == char_to_key(lower)
            up == char_to_key(lower - 32)
        IN  /\ (IsLowerLetter(c) \/ IsUpperLetter(c))
                 => /\ IsSome(lo) /\ IsSome(up)
                    /\ Unwrap(lo)[1] = Unwrap(up)[1]
                    /\ Unwrap(lo)[2] = FALSE
                    /\ Unwrap(up)[2] = TRUE
            /\ ~IsSupportedChar(c) => char_to_key(c) = None
            /\ IsSupportedChar(c) => IsSome(char_to_key(c))

\* The string dD was typed: both letters went out as key G, the second with shift.
C16_Witness ==
    /\ pc = "leds"
    /\ typed = <<Ord("d"), Ord("D")>>
    /\ reports = << <<"G">>, <<>>, <<"LeftShift", "G">>, <<>> >>

\* The chord of a supported character.
CharChord(c) ==
    IF Unwrap(char_to_key(c))[2]
    THEN <<"LeftShift", Unwrap(char_to_key(c))[1]>>
    ELSE <<Unwrap(char_to_key(c))[1]>>

\* C17: the reports of a typed string are, in string order, one (chord, empty
\* report) pair per supported character, the chord being [LeftShift, key] when
\* shift is required and [key] otherwise; an unsupported character adds no report
\* and the characters after it are typed.
C17_TypedStringReports ==
    pc = "leds"
        => LET supported == SelectSeq(typed, IsSupportedChar)
           IN  /\ Len(reports) = 2 * Len(supported)
               /\ \A j \in 1..Len(supported) :
                    /\ reports[(2 * j) - 1] = CharChord(supported[j])
                    /\ reports[2 * j] = <<>>

\* d, the byte 0x01 and D were typed: two pairs, nothing for the control byte.
C17_Witness ==
    /\ pc = "leds"
    /\ typed = <<Ord("d"), 1, Ord("D")>>
    /\ reports = << <<"G">>, <<>>, <<"LeftShift", "G">>, <<>> >>

(***************************************************************************)
(* The LED update on its own: any state the loop can hold, at any tick.    *)
(***************************************************************************)
\* Ticks around the turning points of the pulse and the wrap of the u8 offset,
\* in the first 65536 ticks, the next 65536 and the last before the u32 wraps.
LedTickLows ==
    (0..5) \cup (253..258) \cup (509..514) \cup { 65534, 65535 }
LedTicks == { <<high, low>> : high \in { 0, 1, U16 - 1 }, low \in LedTickLows }

InitLeds ==
    /\ state \in ParserStates
    /\ prev_keys = [i \in 0..(NUM_KEYS - 1) |-> FALSE]
    /\ last_a = FALSE
    /\ tick_counter \in LedTicks
    /\ serial_buf = <<>>
    /\ serial_pos = 0
    /\ pc = "leds"
    /\ pwm = PwmSilent
    /\ NoOutput
    /\ Peripherals

NextLeds == LedsStep

SpecLeds == InitLeds /\ [][NextLeds]_vars

(***************************************************************************)
(* C18, C19: the LED frame                                                 *)
(***************************************************************************)
\* The LED update has run.
FrameWritten == pc = "serial"
\* The state with the fields other than layer and override table at fixed values.
LedInputsOnly(s) ==
    [ layer |-> s.layer, prev_layer |-> "Vibe", message |-> <<>>, status |-> "Idle",
      custom_colors |-> s.custom_colors, display_dirty |-> FALSE ]
IsRGB8(c) == Len(c) = 3 /\ \A k \in 1..3 : c[k] \in 0..255

\* C18: the frame has exactly 12 colours; it is the frame computed from the same
\* layer, tick and override table with any message, status, prev_layer and dirty
\* flag; LED i shows override i when the table is present and its entry i is not
\* (0,0,0), and otherwise the colour the layer computes for (i, tick) without
\* overrides.
C18_FrameOfLayerTickOverrides ==
    FrameWritten
        => /\ DOMAIN leds = 0..11
           /\ Cardinality(DOMAIN leds) = 12
           /\ \A i \in DOMAIN leds : IsRGB8(leds[i])
           /\ leds = compute_leds(LedInputsOnly(state), tick_counter)
           /\ \A i \in 0..11 :
                leds[i] = IF IsSome(state.custom_colors) /\ OverrideAt(state, i) # RGB8(0, 0, 0)
                          THEN OverrideAt(state, i)
                          ELSE compute_leds([state EXCEPT !.custom_colors = None], tick_counter)[i]

\* A frame was written in Media with a message, status Err and a table that sets
\* LED 2 and LED 11 only: they show their overrides, LED 0 the gradient.
C18_Witness ==
    /\ FrameWritten
    /\ state.layer = "Media"
    /\ state.message # <<>>
    /\ state.status = "Err"
    /\ leds[2] = RGB8(1, 2, 3)
    /\ leds[11] = RGB8(10, 11, 12)
    /\ leds[0] = media_gradient(2)
    /\ tick_counter = <<0, 5>>

\* The pulse value of a tick, from its low half: the phase is (tick / 2) mod 256,
\* the green channel rises by 2 per phase to 254 and falls back.
PulseOf(tick) ==
    LET phase == (tick[2] \div 2) % 256
    IN  RGB8(0, IF phase < 128 THEN 2 * phase ELSE 2 * (255 - phase), 0)

\* C19 as stated: with no override for it LED 11 shows the tick's pulse value in
\* every layer, the same in Vibe, Media and Snippet.
C19_IndicatorPulsesInEveryLayer ==
    (FrameWritten /\ OverrideAt(state, 11) = RGB8(0, 0, 0))
        => /\ leds[11] = PulseOf(tick_counter)
           /\ \A L \in Layer : compute_leds([state EXCEPT !.layer = L], tick_counter)[11] = leds[11]

\* C19 amended: with no override for it LED 11 shows the tick's pulse value in
\* Vibe and in Media, the same in both and independent of the gradient; in
\* Snippet it is solid green (0,255,0) at every tick.
C19_IndicatorPulsesInVibeAndMedia ==
    (FrameWritten /\ OverrideAt(state, 11) = RGB8(0, 0, 0))
        => /\ state.layer \in {"Vibe", "Media"}
                => /\ leds[11] = PulseOf(tick_counter)
                   /\ leds[11] = pulse_green(tick_counter)
                   /\ \A L \in {"Vibe", "Media"} :
                        compute_leds([state EXCEPT !.layer = L], tick_counter)[11] = leds[11]
           /\ state.layer = "Snippet" => leds[11] = RGB8(0, 255, 0)

\* A frame was written in Media at tick 65536 + 257, phase 128: LED 11 shows the
\* pulse on its way down and LED 10 the gradient.
C19_Witness ==
    /\ FrameWritten
    /\ state.layer = "Media"
    /\ tick_counter = <<1, 257>>
    /\ OverrideAt(state, 11) = RGB8(0, 0, 0)
    /\ leds[11] = RGB8(0, 254, 0)
    /\ leds[10] # leds[11]

(***************************************************************************)
(* C20: the timer top of the startup beep                                  *)
(***************************************************************************)
\* C20: once the beep has programmed the slice, its top is (125_000_000 / 64) / 440
\* by integer division, 4438, with divider 64, and the quotient is below 2^16, so
\* the cast to the 16-bit register cuts nothing off.
C20_BeepTop ==
    pc # "boot"
        => /\ pwm.top = (125000000 \div 64) \div 440
           /\ pwm.top = 4438
           /\ pwm.div = 64
           /\ (sys_freq \div 64) \div 440 < 65536
           /\ sys_freq = 125000000

\* The tone sounds: the slice is programmed and the duty is not zero.
C20_Witness ==
    /\ pc = "beep"
    /\ pwm.top = 4438
    /\ pwm.duty > 0

(***************************************************************************)
(* C21: the duty of the startup beep                                       *)
(***************************************************************************)
\* C21 as stated: while the tone sounds the duty is half of top (top / 2), and
\* once the tone is silenced the duty is zero.
C21_BeepDutyHalfTop ==
    /\ pc = "beep" => pwm.duty = pwm.top \div 2
    /\ pc \notin {"boot", "beep"} => pwm.duty = 0

(***************************************************************************)
(* C22: one action per press edge                                          *)
(***************************************************************************)
\* The handler of a layer and the reports it sends for a key.
HandlerOf(layer) ==
    CASE layer = "Vibe" -> "handle_vibe_key"
      [] layer = "Media" -> "handle_media_key"
      [] layer = "Snippet" -> "handle_snippet_key"
HandlerReports(layer, key) ==
    CASE layer = "Vibe" -> handle_vibe_key(key)
      [] layer = "Media" -> handle_media_key(key)
      [] layer = "Snippet" -> handle_snippet_key(key)
\* How often this scan invoked a handler for key i.
DispatchCount(calls, i) == Cardinality({ j \in 1..Len(calls) : calls[j][2] = i })

\* C22: in a key scan the action of key i is dispatched once, to the handler of the
\* layer active in the scan, when the key reads pressed and read not-pressed in
\* the previous snapshot, and not at all otherwise: not while the key stays down
\* from tick to tick, not on its release edge, not while it stays up.  The toggle
\* key changes the layer on its press edge and only then.  A scan in which key 0
\* alone has a press edge sends that key's reports and no others.
C22_OncePerPressEdge ==
    [][ pc = "keys"
          => /\ \A i \in LayerKeys :
                  /\ DispatchCount(dispatched', i) = IF PressEdge(i) THEN 1 ELSE 0
                  /\ (StaysDown(i) \/ ReleaseEdge(i)) => DispatchCount(dispatched', i) = 0
             /\ \A j \in 1..Len(dispatched') : dispatched'[j][1] = HandlerOf(state.layer)
             /\ PressEdge(SnippetKey) <=> state'.layer # state.layer
             /\ (PressEdge(0) /\ \A i \in LayerKeys \ {0} : ~PressEdge(i))
                  => reports' = HandlerReports(state.layer, 0)
             /\ (\A i \in LayerKeys : ~PressEdge(i)) => reports' = <<>> ]_vars

\* The third tick's scan found key 0 down in Media and dispatched nothing: the key
\* was down in the second tick's snapshot already.
C22_Witness ==
    /\ pc = "leds"
    /\ tick_counter = <<0, 3>>
    /\ state.layer = "Media"
    /\ prev_keys[0]
    /\ dispatched = <<>>
    /\ reports = <<>>

(***************************************************************************)
(* C23: the encoder advances on the falling edge of channel A              *)
(***************************************************************************)
\* C23: in the encoder block of a tick the advance operation is applied exactly
\* when channel A reads low now and read high at the previous sample, whichever
\* level channel B has: from Vibe or Media the layer then moves one step, to the
\* other of the two, and both layer fields take it (in the overlay the advance is
\* the no-op of the state machine).  On a rising edge, while A stays low and while
\* A stays high the State is left as it was.  No other step of the tick samples
\* the encoder, so a tick advances at most once.
C23_AdvanceOnFallingEdgeOfA ==
    [][ /\ pc = "encoder"
          => /\ last_a' \in BOOLEAN
             /\ (~last_a /\ last_a' /\ state.layer # "Snippet")
                  => /\ state'.layer = Layer_next(state.layer)
                     /\ state'.layer \in Layer \ {"Snippet", state.layer}
                     /\ state'.prev_layer = state'.layer
                     /\ state' = [state EXCEPT !.layer = state'.layer,
                                               !.prev_layer = state'.layer,
                                               !.display_dirty = TRUE]
             /\ (~last_a /\ last_a' /\ state.layer = "Snippet") => state' = state
             /\ ~(~last_a /\ last_a') => state' = state
        /\ pc # "encoder" => last_a' = last_a ]_vars

\* Media is active and the display is clean after the second tick's encoder block,
\* with channel A low: the falling edge of the first tick advanced Vibe to Media,
\* and A staying low in the second tick advanced nothing.
C23_Witness ==
    /\ pc = "display"
    /\ tick_counter = <<0, 2>>
    /\ last_a
    /\ state.layer = "Media"
    /\ ~state.display_dirty

(***************************************************************************)
(* The USB globals shared by main and USBCTRL_IRQ: main from its USB      *)
(* setup on, step by step, with the interrupt taken at any point where it *)
(* is unmasked and no critical section is open.  The core runs the        *)
(* handler to its end before main goes on.                                 *)
(***************************************************************************)
UsbOnly == <<state, prev_keys, last_a, serial_buf, serial_pos, handed, reports,
             dispatched, typed, leds, pwm, display, host, demo>>

InitUsb ==
    /\ state = State_new
    /\ prev_keys = [i \in 0..(NUM_KEYS - 1) |-> FALSE]
    /\ last_a = FALSE
    /\ tick_counter = U32_zero
    /\ serial_buf = <<>>
    /\ serial_pos = 0
    /\ pc = "usb_setup"
    /\ pwm = PwmReset
    /\ NoOutput
    /\ usb = UsbBoot
    /\ display = DisplayBlank
    /\ host = HostIdle
    /\ demo = DemoIdle

\* main is between two calls and the handler is not running.
UsbMainIdle == usb.main = <<>> /\ usb.irq = <<>> /\ ~usb.panicked

\* main reaches its USB setup.
UsbSetupCall ==
    /\ UsbMainIdle
    /\ pc = "usb_setup"
    /\ usb' = [usb EXCEPT !.main = usb_setup]
    /\ pc' = "serial"
    /\ UNCHANGED <<tick_counter, UsbOnly>>

\* The head of a tick: tick_usb in every tenth tick, then read_serial.
UsbTickCalls ==
    /\ UsbMainIdle
    /\ pc = "serial"
    /\ tick_counter[1] = 0 /\ tick_counter[2] < MaxUsbTicks
    /\ tick_counter' = u32_wrapping_add1(tick_counter)
    /\ usb' = [usb EXCEPT !.main = (IF u32_mod10(tick_counter') = 0 THEN tick_usb ELSE <<>>)
                                    \o read_serial]
    /\ pc' = "keys"
    /\ UNCHANGED UsbOnly

\* The key scan: one send_keys per report of the handlers it runs.
UsbKeyCalls ==
    /\ UsbMainIdle
    /\ pc = "keys"
    /\ \E n \in 0..MaxUsbReports :
         usb' = [usb EXCEPT !.main = IF n = 0 THEN <<>>
                                     ELSE IF n = 1 THEN send_keys_usb
                                     ELSE send_keys_usb \o send_keys_usb]
    /\ pc' = "leds"
    /\ UNCHANGED <<tick_counter, UsbOnly>>

\* The poll_usb at the end of the tick.
UsbPollCall ==
    /\ UsbMainIdle
    /\ pc = "leds"
    /\ usb' = [usb EXCEPT !.main = poll_usb]
    /\ pc' = "serial"
    /\ UNCHANGED <<tick_counter, UsbOnly>>

\* main runs one step of the function it is in.
UsbMainStep ==
    /\ usb.main # <<>> /\ usb.irq = <<>> /\ ~usb.panicked
    /\ usb' = usb_step(usb, "main")
    /\ UNCHANGED <<tick_counter, pc, UsbOnly>>

\* The interrupt is taken.
UsbIrqEnter ==
    /\ usb.unmasked /\ usb.cs = "none" /\ usb.irq = <<>> /\ ~usb.panicked
    /\ usb' = [usb EXCEPT !.irq = USBCTRL_IRQ]
    /\ UNCHANGED <<tick_counter, pc, UsbOnly>>

\* The handler runs one step; after its last step main goes on.
UsbIrqStep ==
    /\ usb.irq # <<>> /\ ~usb.panicked
    /\ usb' = usb_step(usb, "irq")
    /\ UNCHANGED <<tick_counter, pc, UsbOnly>>

NextUsb ==
    \/ UsbSetupCall \/ UsbTickCalls \/ UsbKeyCalls \/ UsbPollCall
    \/ UsbMainStep \/ UsbIrqEnter \/ UsbIrqStep

SpecUsb == InitUsb /\ [][NextUsb]_vars

UsbAllPresent == \A h \in UsbHandles : usb.present[h]
UsbAllAbsent == \A h \in UsbHandles : ~usb.present[h]

\* C24: in every interleaving of main and the interrupt handler no RefCell of the
\* three globals is borrowed while it is borrowed (no borrow panic), every access
\* is made inside the accessing context's own critical section, a borrow never
\* outlives the critical section it was taken in, the handler never runs while
\* main is inside a critical section or holds a borrow, and while the handler
\* runs the three handles are all absent or all present.
C24_UsbHandlesInCriticalSections ==
    /\ ~usb.panicked
    /\ ~usb.bare
    /\ \A h \in UsbHandles : usb.borrow[h] # "none" => usb.cs = usb.borrow[h]
    /\ usb.irq # <<>>
         => /\ usb.cs # "main"
            /\ \A h \in UsbHandles : usb.borrow[h] # "main"
            /\ UsbAllPresent \/ UsbAllAbsent
    /\ usb.cs = "irq" => usb.irq # <<>>

\* The handler holds the three handles, about to poll, having interrupted main
\* between the critical section of send_keys and the poll_usb that follows it.
C24_Witness ==
    /\ usb.irq # <<>>
    /\ Head(usb.irq) = Use(UsbHandles)
    /\ \A h \in UsbHandles : usb.borrow[h] = "irq"
    /\ usb.main = poll_usb
    /\ pc = "leds"

(***************************************************************************)
(* C25: failures of external operations                                    *)
(***************************************************************************)
\* C25 as stated: whatever the external operations of a tick return, the loop is
\* never halted: main is always at the startup beep or at one of the parts of a
\* tick.
C25_LoopNeverHalts ==
    pc \in {"boot", "beep", "serial", "encoder", "display", "keys", "leds"}

(***************************************************************************)
(* C26: each event source writes its own fields                            *)
(***************************************************************************)
\* C26: the serial step, whatever commands it processes, leaves layer and
\* prev_layer as they were; the encoder block and the key scan leave message,
\* status and the override table as they were; and the status changes only in a
\* serial step that hands over a command beginning with STS: or RST:.
C26_SourcesWriteOwnFields ==
    [][ /\ pc = "serial"
          => /\ state'.layer = state.layer
             /\ state'.prev_layer = state.prev_layer
        /\ pc \in {"encoder", "keys"}
          => /\ state'.message = state.message
             /\ state'.status = state.status
             /\ state'.custom_colors = state.custom_colors
        /\ state'.status # state.status
          => /\ pc = "serial"
             /\ \E k \in 1..Len(handed') :
                  starts_with(handed'[k], PrefixSTS) \/ starts_with(handed'[k], PrefixRST) ]_vars

\* The third tick's key scan has pressed the toggle: the overlay is active over
\* Media, which the encoder set, and the message, the status and an override that
\* commands set are in place.
C26_Witness ==
    /\ pc = "leds"
    /\ tick_counter = <<0, 3>>
    /\ state.layer = "Snippet"
    /\ state.prev_layer = "Media"
    /\ state.message # <<>>
    /\ state.status = "Run"
    /\ state.custom_colors # None

(***************************************************************************)
(* C27: prev_layer is never the overlay                                    *)
(***************************************************************************)
\* C27: in every state main reaches prev_layer is Vibe or Media; so a toggle
\* while the overlay is active lands on Vibe or Media, never on the overlay
\* again, and two toggles from Vibe or Media come back to where they started.
C27_PrevLayerNotOverlay ==
    /\ state.prev_layer \in {"Vibe", "Media"}
    /\ state.layer \in Layer
    /\ state.layer = "Snippet"
         => /\ toggle_snippet(state).layer \in {"Vibe", "Media"}
            /\ toggle_snippet(state).prev_layer \in {"Vibe", "Media"}
    /\ state.layer # "Snippet"
         => /\ state.prev_layer = state.layer
            /\ toggle_snippet(toggle_snippet(state)).layer = state.layer

\* The key scan has just toggled into the overlay over Media.
C27_Witness ==
    /\ pc = "leds"
    /\ prev_keys[SnippetKey]
    /\ state.display_dirty
    /\ state.layer = "Snippet"
    /\ state.prev_layer = "Media"

(***************************************************************************)
(* The host's byte stream cut into reads: the serial part of consecutive   *)
(* ticks, each read_serial returning the next 0 to 32 bytes of the stream. *)
(* host keeps the stream, how much of it has been read, the size of the    *)
(* last read, every line handed to process_command so far, and the State   *)
(* the stream met.                                                         *)
(***************************************************************************)
SplitStreams ==
    { Bytes(<<"M", "S", "G", ":", "H", "i">>) \o <<CR, LF>>
        \o Bytes(<<"S", "T", "S", ":", "R", "U", "N">>) \o <<LF>>,
      Bytes(<<"R", "G", "B", ":", "3", ":", "F", "F", "0", "0", "A", "A">>) \o <<LF>>
        \o PrefixCLR \o <<LF>>,
      PrefixMSG \o Rep(LowerA, 30) \o <<LF>> \o PrefixRST \o <<LF>>,
      Rep(UpperA, 70) \o <<LF>> \o Bytes(<<"S", "T", "S", ":", "E", "R", "R">>) \o <<CR>>,
      <<LF, CR, LF, LF>>,
      Bytes(<<"S", "T", "S", ":", "W", "A", "I", "T">>) \o <<CR, CR, LF>>
        \o Bytes(<<"S", "T", "S", ":", "R", "U">>) }

SplitStates ==
    { State_new,
      [ layer |-> "Snippet", prev_layer |-> "Media", message |-> Rep(UpperA, 20),
        status |-> "Err", custom_colors |-> None, display_dirty |-> FALSE ] }

InitSplit ==
    /\ state \in SplitStates
    /\ prev_keys = [i \in 0..(NUM_KEYS - 1) |-> FALSE]
    /\ last_a = FALSE
    /\ tick_counter = <<0, 1>>
    /\ serial_buf = <<>>
    /\ serial_pos = 0
    /\ pc = "serial"
    /\ pwm = PwmSilent
    /\ NoOutput
    /\ usb = UsbReady
    /\ display = display_frame(state)
    /\ \E s \in SplitStreams :
          host = [ stream |-> s, done |-> 0, last |-> 0, log |-> <<>>, start |-> state ]
    /\ demo = DemoIdle

\* The bytes of the stream not read yet.
HostPending == Len(host.stream) - host.done

\* One tick's read_serial and byte loop: the read returns the next n bytes.
SplitRead ==
    /\ pc = "serial"
    /\ \E n \in 0..(IF HostPending < TempBufLen THEN HostPending ELSE TempBufLen) :
         /\ SerialRead({ SubSeq(host.stream, host.done + 1, host.done + n) })
         /\ host' = [host EXCEPT !.done = @ + n, !.last = n, !.log = @ \o handed']
    /\ UNCHANGED <<prev_keys, last_a, tick_counter, pc, reports, dispatched, typed, leds,
                   pwm, usb, display, demo>>

NextSplit == SplitRead

SpecSplit == InitSplit /\ [][NextSplit]_vars

\* The commands of a byte stream: its pieces between terminators, the empty ones
\* left out, each cut to the line buffer's length.
RECURSIVE StreamCommands(_, _, _, _)
StreamCommands(bytes, i, cur, out) ==
    IF i > Len(bytes) THEN out
    ELSE IF bytes[i] \in {LF, CR}
         THEN StreamCommands(bytes, i + 1, <<>>,
                             IF cur = <<>> THEN out ELSE Append(out, Take(cur, SerialBufLen)))
         ELSE StreamCommands(bytes, i + 1, Append(cur, bytes[i]), out)

\* The part of the stream read so far, and the read loop run over it in one piece.
HostRead == SubSeq(host.stream, 1, host.done)
Unsplit ==
    serial_loop(HostRead, 1, [ st |-> host.start, buf |-> <<>>, pos |-> 0, hd |-> <<>> ])

\* C28: however the stream has been cut into reads of 0 to 32 bytes, after every
\* read the lines handed to process_command so far, the State and the line buffer
\* are those the read loop gives on the same bytes in one piece; the lines handed
\* over are the stream's non-empty pieces between terminators, each once and in
\* order, a line being handed over in the read that brings its terminator; and
\* consecutive terminators hand over nothing.
C28_SplitIndependent ==
    /\ host.log = Unsplit.hd
    /\ state = Unsplit.st
    /\ serial_buf = Unsplit.buf
    /\ serial_pos = Unsplit.pos
    /\ host.log = StreamCommands(HostRead, 1, <<>>, <<>>)
    /\ \A k \in 1..Len(host.log) : host.log[k] # <<>>
    /\ Len(handed) <= Cardinality({ i \in (host.done - host.last + 1)..host.done :
                                      host.stream[i] \in {LF, CR} })

\* The stream MSG:Hi\r\nSTS:RUN\n has been read to its end and the last read
\* brought one byte, the final terminator: STS:RUN, whose bytes came in earlier
\* reads, was handed over in this one, after MSG:Hi and nothing for the \n of \r\n.
C28_Witness ==
    /\ host.done = Len(host.stream)
    /\ host.last = 1
    /\ handed = << Bytes(<<"S", "T", "S", ":", "R", "U", "N">>) >>
    /\ host.log = << Bytes(<<"M", "S", "G", ":", "H", "i">>),
                     Bytes(<<"S", "T", "S", ":", "R", "U", "N">>) >>
    /\ state.status = "Run"
    /\ serial_pos = 0

(***************************************************************************)
(* C29: the display follows the State                                      *)
(***************************************************************************)
\* The fields the display is drawn from.
Shown(s) == <<s.layer, s.message, s.status>>

\* C29: whenever the dirty flag is clear the display shows the frame of the
\* current layer, message and status, and it is clear right after the display
\* step, so what the serial step and the encoder block changed in this tick is on
\* the display when the key scan starts.  Every step that changes layer, message
\* or status leaves the flag set; only the display step clears it, and it does so
\* by drawing the frame of the State it finds; with the flag clear it draws
\* nothing.  So what a key press changed is drawn by the next display step.
C29_DisplayNeverStale ==
    /\ [](/\ ~state.display_dirty => display = display_frame(state)
          /\ pc = "keys" => ~state.display_dirty)
    /\ [][ /\ Shown(state') # Shown(state) => state'.display_dirty
           /\ (pc # "display" /\ state.display_dirty) => state'.display_dirty
           /\ (pc = "display" /\ state.display_dirty)
                => /\ display' = display_frame(state)
                   /\ ~state'.display_dirty
                   /\ Shown(state') = Shown(state)
           /\ (pc = "display" /\ ~state.display_dirty) => display' = display
           /\ pc # "display" => display' = display ]_vars

\* The second tick's display step has drawn the overlay that the first tick's key
\* scan toggled to: the toggle key is down in the previous snapshot, no command
\* has arrived since, and the flag is clear again.
C29_Witness ==
    /\ pc = "keys"
    /\ tick_counter = <<0, 2>>
    /\ prev_keys[SnippetKey]
    /\ handed = <<>>
    /\ state.layer = "Snippet"
    /\ ~state.display_dirty
    /\ display.labels = default_labels("Snippet")
    /\ display.name = "SNIPPET"

(***************************************************************************)
(* The LED arithmetic over every offset: the frame of each layer at every  *)
(* tick of the first and of the last 512 of the counter's range.           *)
(***************************************************************************)
MathTicks == { <<high, low>> : high \in { 0, U16 - 1 }, low \in (0..511) \cup { U16 - 2, U16 - 1 } }

MathStates ==
    { [ State_new EXCEPT !.layer = lp[1], !.prev_layer = lp[2] ] :
        lp \in { <<"Vibe", "Vibe">>, <<"Media", "Media">>, <<"Snippet", "Media">> } }

InitLedMath ==
    /\ state \in MathStates
    /\ prev_keys = [i \in 0..(NUM_KEYS - 1) |-> FALSE]
    /\ last_a = FALSE
    /\ tick_counter \in MathTicks
    /\ serial_buf = <<>>
    /\ serial_pos = 0
    /\ pc = "leds"
    /\ pwm = PwmSilent
    /\ NoOutput
    /\ Peripherals

NextLedMath == LedsStep

SpecLedMath == InitLedMath /\ [][NextLedMath]_vars

InU8(v) == v >= 0 /\ v < U8
InU16(v) == v >= 0 /\ v < U16
AllInU8(vs) == \A k \in 1..Len(vs) : InU8(vs[k])
AllInU16(vs) == \A k \in 1..Len(vs) : InU16(vs[k])
\* The position and the interpolation parameter of gradient LED i at this tick.
PosOf(i) == gradient_pos(u32_div2(tick_counter) % U8, i)
ParamOf(i) == gradient_u8(PosOf(i))[Len(gradient_u8(PosOf(i)))]

\* C30: for the frame of the current layer and tick every u8 operation of the
\* gradients and of the pulse (i * 23, pos * 2, pos - 128, (pos - 128) * 2,
\* phase * 2, 255 - phase, (255 - phase) * 2) has a value in 0..255, every u16
\* operation of the interpolation (255 - t, a * (255 - t), b * t and their sum)
\* has a value in 0..65535 and its quotient by 255 fits a u8; so the wrapped
\* arithmetic gives these very values, and every channel of the frame is a u8.
C30_LedArithmeticInRange ==
    /\ \A i \in 0..10 :
         /\ AllInU8(pos_u8(i))
         /\ AllInU8(gradient_u8(PosOf(i)))
         /\ \A a \in GradientChannels, b \in GradientChannels :
              /\ AllInU16(lerp_u16(a, b, ParamOf(i)))
              /\ InU8(lerp_u16(a, b, ParamOf(i))[4] \div 255)
              /\ lerp_channel(a, b, ParamOf(i), 255 - ParamOf(i))
                   = lerp_u16(a, b, ParamOf(i))[4] \div 255
         /\ gradient_pos(u32_div2(tick_counter) % U8, i)
              = ((u32_div2(tick_counter) % U8) + pos_u8(i)[1]) % U8
         /\ vibe_gradient(PosOf(i))
              = lerp_color(IF PosOf(i) < 128 THEN RGB8(128, 0, 255) ELSE RGB8(0, 255, 255),
                           IF PosOf(i) < 128 THEN RGB8(0, 255, 255) ELSE RGB8(0, 0, 255),
                           ParamOf(i))
         /\ media_gradient(PosOf(i))
              = lerp_color(IF PosOf(i) < 128 THEN RGB8(255, 128, 0) ELSE RGB8(255, 0, 128),
                           IF PosOf(i) < 128 THEN RGB8(255, 0, 128) ELSE RGB8(255, 0, 0),
                           ParamOf(i))
    /\ AllInU8(pulse_u8(tick_counter))
    /\ pulse_green(tick_counter)
         = RGB8(0, pulse_u8(tick_counter)[Len(pulse_u8(tick_counter))], 0)
    /\ \A i \in 0..(NUM_LEDS - 1), c \in 1..3 :
         InU8(compute_leds(state, tick_counter)[i][c])

\* The Vibe frame of the counter's last value has been written: with offset 255
\* the pulse is at its lowest ((255 - 255) * 2) and LED 10 sits at position
\* 255 + 230 - 256 = 229, in the second half of the gradient, with parameter
\* (229 - 128) * 2 = 202.
C30_Witness ==
    /\ pc = "serial"
    /\ tick_counter = <<U16 - 1, U16 - 1>>
    /\ state.layer = "Vibe"
    /\ leds = compute_leds(state, tick_counter)
    /\ leds[11] = RGB8(0, 0, 0)
    /\ PosOf(10) = 229
    /\ ParamOf(10) = 202
    /\ leds[10] = lerp_color(RGB8(0, 255, 255), RGB8(0, 0, 255), 202)

(***************************************************************************)
(* The rainbow demo's loop: frame n is computed and the pressed keys are   *)
(* painted white, then the frame is written and n wraps on.  The build     *)
(* either checks u8 overflow (and panics on it) or lets it wrap.           *)
(***************************************************************************)
DemoOnly == <<state, prev_keys, last_a, tick_counter, serial_buf, serial_pos, pc, handed,
              reports, dispatched, typed, leds, pwm, usb, display, host>>

InitRainbow ==
    /\ state = State_new
    /\ prev_keys = [i \in 0..(NUM_KEYS - 1) |-> FALSE]
    /\ last_a = FALSE
    /\ tick_counter = U32_zero
    /\ serial_buf = <<>>
    /\ serial_pos = 0
    /\ pc = "boot"
    /\ pwm = PwmReset
    /\ NoOutput
    /\ usb = UsbBoot
    /\ display = DisplayBlank
    /\ host = HostIdle
    /\ \E checks \in BOOLEAN : demo = DemoBoot(checks)

\* get_led_states(n) and the twelve key tests.
RainbowFrame ==
    /\ demo.pc = "frame"
    /\ IF get_led_states_overflows(demo.n) /\ demo.overflow_checks
       THEN demo' = [demo EXCEPT !.pc = "halted"]
       ELSE \E keys \in KeySnapshots :
                demo' = [demo EXCEPT !.led_states = demo_keys(get_led_states(demo.n), keys),
                                     !.pc = "write"]
    /\ UNCHANGED DemoOnly

\* The button test, ws.write(..).unwrap() and n = n.wrapping_add(1).
RainbowWrite ==
    /\ demo.pc = "write"
    /\ \E button \in BOOLEAN, written \in BOOLEAN :
         IF written
         THEN demo' = [demo EXCEPT !.strip = demo.led_states,
                                   !.brightness_val = IF button THEN 255 ELSE 32,
                                   !.n = (demo.n + 1) % U8,
                                   !.pc = "frame"]
         ELSE demo' = [demo EXCEPT !.pc = "halted"]
    /\ UNCHANGED DemoOnly

NextRainbow == RainbowFrame \/ RainbowWrite

SpecRainbow == InitRainbow /\ [][NextRainbow]_vars

\* One channel is zero and the other two sum to 255.
WheelColour(c) ==
    \/ c[2] = 0 /\ c[1] + c[3] = 255
    \/ c[1] = 0 /\ c[2] + c[3] = 255
    \/ c[3] = 0 /\ c[1] + c[2] = 255

\* wheel gives every position 0..255 a colour with one channel zero and the
\* other two summing to 255.
WheelColours == \A p \in 0..(U8 - 1) : WheelColour(wheel(p))

\* C31 as stated: in every frame the demo computes, whatever the counter n has come
\* to, the position (i * 256 / 12) as u8 + n of every LED i in 0..11 is within
\* 0..255 (the u8 addition does not overflow, the demo does not panic on it), and
\* wheel gives every position a colour with one channel zero and the other two
\* summing to 255.
C31_WheelWithoutOverflow ==
    /\ []WheelColours
    /\ [][ demo.pc = "frame"
             => /\ \A i \in 0..(NUM_LEDS - 1) :
                     wheel_sum(i, demo.n) >= 0 /\ wheel_sum(i, demo.n) < U8
                /\ demo'.pc = "write" ]_vars

====
